---- MODULE Spec2Model ----
(***************************************************************************)
(* Model of the Excel merging scripts (src/master_merge/main.py).          *)
(*                                                                         *)
(* Strings are TLA+ strings; a DataFrame is a record                       *)
(*   [columns : sequence of column labels,                                 *)
(*    index   : number of rows,                                            *)
(*    data    : sequence (one per column) of sequences of cells].          *)
(* A Python dict is a sequence of <<key, value>> pairs in insertion order. *)
(***************************************************************************)
EXTENDS Integers, Sequences, FiniteSets, TLC

VARIABLES
    column_name,      \* analyze_column: the header passed in
    std_col,          \* analyze_column: the value returned
    std_again,        \* analyze_column: the value returned for std_col
    npc,              \* analyze_column: "call" before, "return" after
    excel_files,      \* merge_excel_files: list of file paths
    disk,             \* the workbooks on disk, by position in excel_files
    data_info_list,   \* result of extract_dataframes
    column_mappings,  \* self.column_mappings
    merged_data,      \* merge_dataframes: the projected tables
    master_df,        \* merge_dataframes: the merged table
    summary,          \* result of generate_summary_report
    output,           \* the workbook at self.output_path
    log,              \* the lines printed, in order
    raised,           \* the exception in flight, "" when there is none
    result,           \* what merge_excel_files hands to its caller
    pc,               \* position in merge_excel_files
    all_data,         \* extract_truck_columns: the records collected
    result_df,        \* extract_truck_columns: the table built from all_data
    output_file,      \* extract_truck_columns: the workbook at output_file
    tpc,              \* position in extract_truck_columns
    script,           \* the scanning program that runs
    platform,         \* "posix" or "windows": how glob compares names
    folder,           \* os.listdir(folder_path): the names in the folder
    scan_files,       \* the names the scan selected (excel_files)
    file_i,           \* the loop over scan_files: files done so far
    output_folder,    \* the JSON documents in output_folder
    summary_json,     \* the aggregate summary written
    ipc,              \* position in the inspection script
    variant,          \* the GUI module: "excel_merger_gui" or "gui"
    workbooks,        \* the workbooks the file dialogs offer, by path
    files_to_merge,   \* self.files_to_merge
    file_listbox,     \* the entries of self.file_listbox
    merge_button,     \* state of self.merge_button
    status_label,     \* text of self.status_label
    progress_var,     \* self.progress_var
    after_queue,      \* callbacks posted with root.after(0, ...), in order
    posted,           \* outcome callbacks the running worker has posted
    thread            \* position of the worker thread in perform_merge

normVars == <<column_name, std_col, std_again, npc>>
filesVars == <<excel_files, disk>>
runVars == <<data_info_list, column_mappings, merged_data, master_df, summary,
             raised, result, pc>>
pipeVars == <<filesVars, runVars, output, log>>
truckVars == <<all_data, result_df, output_file, tpc>>

inspectVars == <<script, platform, folder, scan_files, file_i, output_folder,
                 summary_json, ipc>>
guiVars == <<variant, workbooks, files_to_merge, file_listbox, merge_button,
             status_label, progress_var, after_queue, posted, thread>>

vars == <<normVars, pipeVars, truckVars, inspectVars, guiVars>>

(***************************************************************************)
(* Bounds of the model.                                                    *)
(***************************************************************************)
MaxFrags == 3     \* fragments concatenated into a header given to analyze_column
MaxTables == 2    \* sheets over all workbooks of one run

(***************************************************************************)
(* Values.                                                                 *)
(***************************************************************************)
NaN == "<NaN>"    \* the null cell / null header (np.nan, None)

(***************************************************************************)
(* Python string operations used by analyze_column.                        *)
(***************************************************************************)
Whitespace == {" ", "\t", "\n"}

LowerChar(c) ==
    LET UpperCase == <<"A","B","C","D","E","F","G","H","I","J","K","L","M",
                       "N","O","P","Q","R","S","T","U","V","W","X","Y","Z">>
        LowerCase == <<"a","b","c","d","e","f","g","h","i","j","k","l","m",
                       "n","o","p","q","r","s","t","u","v","w","x","y","z">>
    IN  IF \E i \in 1..Len(UpperCase) : UpperCase[i] = c
        THEN LowerCase[CHOOSE i \in 1..Len(UpperCase) : UpperCase[i] = c]
        ELSE c

\* the header is matched as written
lower_asis(s) == s

RECURSIVE lower(_)
lower(s) ==
    IF s = "" THEN ""
    ELSE LowerChar(SubSeq(s, 1, 1)) \o lower(SubSeq(s, 2, Len(s)))

RECURSIVE lstrip(_)
lstrip(s) ==
    IF s # "" /\ SubSeq(s, 1, 1) \in Whitespace
    THEN lstrip(SubSeq(s, 2, Len(s)))
    ELSE s

RECURSIVE rstrip(_)
rstrip(s) ==
    IF s # "" /\ SubSeq(s, Len(s), Len(s)) \in Whitespace
    THEN rstrip(SubSeq(s, 1, Len(s) - 1))
    ELSE s

strip(s) == rstrip(lstrip(s))

\* Python's `key in col_str` on strings: key occurs as a substring
Contains(col_str, key) ==
    \E i \in 1..(Len(col_str) - Len(key) + 1) :
        SubSeq(col_str, i, i + Len(key) - 1) = key

(***************************************************************************)
(* analyze_column                                                          *)
(***************************************************************************)
replacements == <<
    <<"truck", "truck">>,
    <<"vehicle", "truck">>,
    <<"unit", "truck">>,
    <<"truck_no", "truck_number">>,
    <<"truck_nbr", "truck_number">>,
    <<"truck_num", "truck_number">>,
    <<"truck#", "truck_number">>,
    <<"trk", "truck">>,
    <<"loc", "location">>,
    <<"gps", "location">>,
    <<"position", "location">>,
    <<"coord", "location">>,
    <<"lat", "latitude">>,
    <<"lon", "longitude">>,
    <<"long", "longitude">>,
    <<"status", "status">>,
    <<"state", "status">>,
    <<"condition", "status">>,
    <<"date", "date">>,
    <<"time", "time">>,
    <<"timestamp", "datetime">>,
    <<"driver", "driver">>,
    <<"operator", "driver">>,
    <<"load", "load">>,
    <<"cargo", "load">>,
    <<"weight", "weight">>,
    <<"destination", "destination">>,
    <<"dest", "destination">>,
    <<"origin", "origin">>,
    <<"src", "origin">>,
    <<"speed", "speed">>,
    <<"velocity", "speed">>,
    <<"fuel", "fuel">>,
    <<"mileage", "mileage">>,
    <<"odometer", "mileage">>,
    <<"temp", "temperature">>,
    <<"temperature", "temperature">> >>

\* the loop without its early return: the last matching entry wins
ScanReplacements_last(col_str, i) ==
    LET hits == {j \in i..Len(replacements) : Contains(col_str, replacements[j][1])}
    IN  IF hits = {} THEN col_str
        ELSE replacements[CHOOSE j \in hits : \A k \in hits : j >= k][2]

\* the entry with the longest matching substring wins, the first of them
\* in table order
ScanReplacements_longest(col_str, i) ==
    LET hits == {j \in i..Len(replacements) : Contains(col_str, replacements[j][1])}
        best == {j \in hits : \A k \in hits :
                    Len(replacements[j][1]) >= Len(replacements[k][1])}
    IN  IF hits = {} THEN col_str
        ELSE replacements[CHOOSE j \in best : \A k \in best : j <= k][2]

\* the loop `for key, value in replacements.items()` from entry i on
RECURSIVE ScanReplacements(_, _)
ScanReplacements(col_str, i) ==
    IF i > Len(replacements) THEN col_str
    ELSE IF Contains(col_str, replacements[i][1]) THEN replacements[i][2]
    ELSE ScanReplacements(col_str, i + 1)

analyze_column(name) ==
    IF name = NaN THEN ""
    ELSE ScanReplacements(lower(strip(name)), 1)

\* header rows as pandas reads them
Layouts == { <<"Truck#", "GPS Location", "Status">>,
             <<"vehicle", "position", "condition">>,
             <<"Notes", "TRK#", "Truck#">>,
             <<"Truck", "Truck ">>,
             <<"source_file">>,
             <<" ">> }

KnownHeaders ==
    LET LayoutHeaders == UNION {{l[c] : c \in 1..Len(l)} : l \in Layouts}
    IN  LayoutHeaders \cup {strip(h) : h \in LayoutHeaders}

\* analyze_column is pure; its values on the headers that the workbooks of
\* the model can hold are computed once
analyze_column_memo == [name \in KnownHeaders |-> analyze_column(name)]

analyze(name) ==
    IF name \in KnownHeaders THEN analyze_column_memo[name] ELSE analyze_column(name)

(***************************************************************************)
(* Sequences, dicts and DataFrames.                                        *)
(***************************************************************************)
Has(seq, x) == \E i \in 1..Len(seq) : seq[i] = x

IndexOf(seq, x) == CHOOSE i \in 1..Len(seq) : seq[i] = x /\ \A j \in 1..(i - 1) : seq[j] # x

\* list.count(x)
Count(seq, x) == Cardinality({i \in 1..Len(seq) : seq[i] = x})

Min(S) == CHOOSE x \in S : \A y \in S : x <= y

Fill(n, v) == [i \in 1..n |-> v]

\* d[k] = v on a dict: an existing key keeps its position
DictSet(d, k, v) ==
    IF \E i \in 1..Len(d) : d[i][1] = k
    THEN [i \in 1..Len(d) |-> IF d[i][1] = k THEN <<k, v>> ELSE d[i]]
    ELSE Append(d, <<k, v>>)

DictKeys(d) == [i \in 1..Len(d) |-> d[i][1]]

\* pd.DataFrame()
EmptyFrame == [columns |-> <<>>, index |-> 0, data |-> <<>>]

\* only a frame without columns counts as empty
IsEmpty_nocolumns(df) == Len(df.columns) = 0

\* df.empty
IsEmpty(df) == df.index = 0 \/ Len(df.columns) = 0

\* df[key] is a Series only when one column carries the label key;
\* with a repeated label it is a DataFrame of all the columns so labelled
IsSeries(df, key) == Count(df.columns, key) = 1

Series(df, key) == df.data[IndexOf(df.columns, key)]

SetColumn(df, key, values) ==
    IF Has(df.columns, key)
    THEN [df EXCEPT !.data[IndexOf(df.columns, key)] = values]
    ELSE [df EXCEPT !.columns = Append(@, key), !.data = Append(@, values)]

\* df[key] = series, the series being non-empty: a frame without rows takes
\* the index of the series, its existing columns becoming null
SetItemSeries(df, key, series) ==
    LET g == IF df.index = 0
             THEN [columns |-> df.columns,
                   index |-> Len(series),
                   data |-> [c \in 1..Len(df.columns) |-> Fill(Len(series), NaN)]]
             ELSE df
    IN  SetColumn(g, key, series)

\* df[key] = scalar: broadcast over the rows the frame has
SetItemScalar(df, key, value) == SetColumn(df, key, Fill(df.index, value))

\* the cell of row r under label key, null when the frame lacks the label
Cell(df, r, key) == IF Has(df.columns, key) THEN Series(df, key)[r] ELSE NaN

RECURSIVE UnionColumns(_, _)
UnionColumns(frames, acc) ==
    IF frames = <<>> THEN acc
    ELSE LET cols == Head(frames).columns
             new == SelectSeq(cols, LAMBDA c : ~Has(acc, c))
         IN  UnionColumns(Tail(frames), acc \o new)

RECURSIVE ConcatColumn(_, _)
ConcatColumn(frames, key) ==
    IF frames = <<>> THEN <<>>
    ELSE [r \in 1..Head(frames).index |-> Cell(Head(frames), r, key)]
         \o ConcatColumn(Tail(frames), key)

\* pd.concat(frames, ignore_index=True)
concat(frames) ==
    LET cols == UnionColumns(frames, <<>>)
    IN  [columns |-> cols,
         index |-> IF cols = <<>> THEN 0 ELSE Len(ConcatColumn(frames, cols[1])),
         data |-> [c \in 1..Len(cols) |-> ConcatColumn(frames, cols[c])]]

RECURSIVE KeptRows(_, _, _)
KeptRows(df, subset, r) ==
    IF r > df.index THEN <<>>
    ELSE LET dup == \E q \in 1..(r - 1) :
                        \A c \in 1..Len(subset) : Cell(df, q, subset[c]) = Cell(df, r, subset[c])
         IN  (IF dup THEN <<>> ELSE <<r>>) \o KeptRows(df, subset, r + 1)

\* df.drop_duplicates(subset=subset, keep='first')
drop_duplicates(df, subset) ==
    LET kept == KeptRows(df, subset, 1)
    IN  [columns |-> df.columns,
         index |-> Len(kept),
         data |-> [c \in 1..Len(df.columns) |-> [k \in 1..Len(kept) |-> df.data[c][kept[k]]]]]

(***************************************************************************)
(* extract_dataframes                                                      *)
(*                                                                         *)
(* A workbook on disk is [openable, sheets]; a sheet is                    *)
(* [sheet_name, readable, columns, rows], columns being the header cells   *)
(* as pandas reads them and rows the data rows, one cell per column.       *)
(***************************************************************************)
\* Path(file_path).name: what follows the last separator
RECURSIVE PathName(_)
PathName(file_path) ==
    IF Contains(file_path, "/")
    THEN PathName(SubSeq(file_path, 2, Len(file_path)))
    ELSE file_path

\* pd.read_excel: the sheet as a DataFrame
read_excel(sheet) ==
    [columns |-> sheet.columns,
     index |-> Len(sheet.rows),
     data |-> [c \in 1..Len(sheet.columns) |->
                  [r \in 1..Len(sheet.rows) |-> sheet.rows[r][c]]]]

\* the dict built by the loop over df.columns
RECURSIVE StandardizeColumns(_, _)
StandardizeColumns(columns, standardized_cols) ==
    IF columns = <<>> THEN standardized_cols
    ELSE LET col == Head(columns)
             std == analyze(col)
         IN  StandardizeColumns(Tail(columns),
                 IF std # "" THEN DictSet(standardized_cols, col, std)
                 ELSE standardized_cols)

\* the body of the inner try for one sheet: the entries appended to all_data
ExtractSheet(file_path, sheet) ==
    IF ~sheet.readable THEN <<>>
    ELSE LET df0 == read_excel(sheet)
         IN  IF IsEmpty(df0) THEN <<>>
             ELSE LET df == [df0 EXCEPT !.columns =
                                [c \in 1..Len(df0.columns) |-> strip(df0.columns[c])]]
                  IN  << [file_path |-> file_path,
                          sheet_name |-> sheet.sheet_name,
                          original_columns |-> df.columns,
                          standardized_columns |-> StandardizeColumns(df.columns, <<>>),
                          dataframe |-> df,
                          row_count |-> df.index] >>

\* one try around the whole file: a sheet that fails ends its file
RECURSIVE ExtractSheets_abort(_, _)
ExtractSheets_abort(file_path, sheets) ==
    IF sheets = <<>> \/ ~Head(sheets).readable THEN <<>>
    ELSE ExtractSheet(file_path, Head(sheets))
         \o ExtractSheets_abort(file_path, Tail(sheets))

RECURSIVE ExtractSheets(_, _)
ExtractSheets(file_path, sheets) ==
    IF sheets = <<>> THEN <<>>
    ELSE ExtractSheet(file_path, Head(sheets)) \o ExtractSheets(file_path, Tail(sheets))

\* the loop over excel_files from file f on
RECURSIVE ExtractFiles(_, _, _)
ExtractFiles(files, books, f) ==
    IF f > Len(files) THEN <<>>
    ELSE (IF books[f].openable THEN ExtractSheets(files[f], books[f].sheets) ELSE <<>>)
         \o ExtractFiles(files, books, f + 1)

extract_dataframes(files, books) == ExtractFiles(files, books, 1)

\* the lines the inner try prints for one sheet
ExtractSheetLog(file_path, sheet) ==
    IF ~sheet.readable THEN << <<"error_sheet", sheet.sheet_name, file_path>> >>
    ELSE IF IsEmpty(read_excel(sheet)) THEN <<>>
    ELSE << <<"loaded", PathName(file_path), sheet.sheet_name>> >>

RECURSIVE ExtractSheetsLog(_, _)
ExtractSheetsLog(file_path, sheets) ==
    IF sheets = <<>> THEN <<>>
    ELSE ExtractSheetLog(file_path, Head(sheets))
         \o ExtractSheetsLog(file_path, Tail(sheets))

\* the lines extract_dataframes prints for the files from f on
RECURSIVE ExtractFilesLog(_, _, _)
ExtractFilesLog(files, books, f) ==
    IF f > Len(files) THEN <<>>
    ELSE (IF books[f].openable THEN ExtractSheetsLog(files[f], books[f].sheets)
          ELSE << <<"error_file", files[f]>> >>)
         \o ExtractFilesLog(files, books, f + 1)

(***************************************************************************)
(* create_column_mapping                                                   *)
(***************************************************************************)
\* all_std_columns[std_col].append(orig_col) on the defaultdict(list)
AppendOccurrence(all_std_columns, std, orig) ==
    IF \E i \in 1..Len(all_std_columns) : all_std_columns[i][1] = std
    THEN [i \in 1..Len(all_std_columns) |->
             IF all_std_columns[i][1] = std
             THEN <<std, Append(all_std_columns[i][2], orig)>>
             ELSE all_std_columns[i]]
    ELSE Append(all_std_columns, <<std, <<orig>> >>)

RECURSIVE CollectItems(_, _)
CollectItems(items, all_std_columns) ==
    IF items = <<>> THEN all_std_columns
    ELSE CollectItems(Tail(items),
             AppendOccurrence(all_std_columns, Head(items)[2], Head(items)[1]))

RECURSIVE CollectStdColumns(_, _)
CollectStdColumns(infos, all_std_columns) ==
    IF infos = <<>> THEN all_std_columns
    ELSE CollectStdColumns(Tail(infos),
             CollectItems(Head(infos).standardized_columns, all_std_columns))

\* min in place of max: a least frequent name
MostCommon_least(original_columns) ==
    {x \in {original_columns[i] : i \in 1..Len(original_columns)} :
        \A j \in 1..Len(original_columns) :
            Count(original_columns, x) <= Count(original_columns, original_columns[j])}

\* max(set(original_columns), key=original_columns.count): max returns the
\* first maximal element in the iteration order of the set, which for
\* strings depends on the hash seed of the process; any maximal element
\* can be the one returned
MostCommon(original_columns) ==
    {x \in {original_columns[i] : i \in 1..Len(original_columns)} :
        \A j \in 1..Len(original_columns) :
            Count(original_columns, x) >= Count(original_columns, original_columns[j])}

\* `len(occurrences) > 1`: a key seen once is left out
RECURSIVE BuildMappings_repeated(_, _)
BuildMappings_repeated(all_std_columns, i) ==
    IF i > Len(all_std_columns) THEN {<<>>}
    ELSE LET std == all_std_columns[i][1]
             occurrences == all_std_columns[i][2]
         IN  IF Len(occurrences) > 1
             THEN {<< <<std, most_common>> >> \o rest :
                       most_common \in MostCommon(occurrences),
                       rest \in BuildMappings_repeated(all_std_columns, i + 1)}
             ELSE BuildMappings_repeated(all_std_columns, i + 1)

\* the mappings the second loop can build for the entries from i on
RECURSIVE BuildMappings(_, _)
BuildMappings(all_std_columns, i) ==
    IF i > Len(all_std_columns) THEN {<<>>}
    ELSE LET std == all_std_columns[i][1]
             occurrences == all_std_columns[i][2]
         IN  IF Len(occurrences) > 0
             THEN {<< <<std, most_common>> >> \o rest :
                       most_common \in MostCommon(occurrences),
                       rest \in BuildMappings(all_std_columns, i + 1)}
             ELSE BuildMappings(all_std_columns, i + 1)

\* the set of dicts create_column_mapping can return
create_column_mapping(infos) ==
    BuildMappings(CollectStdColumns(infos, <<>>), 1)

(***************************************************************************)
(* merge_dataframes                                                        *)
(***************************************************************************)
PROVENANCE == <<"source_file", "source_sheet", "merge_timestamp">>

\* the exact match only, without the search for a similar column
FoundColumn_exact(df, std, orig) ==
    IF Has(df.columns, orig) THEN <<orig>> ELSE <<>>

\* the column of df that the loop body reads for mapping entry <<std, orig>>:
\* <<label>>, or <<>> when found stays False
FoundColumn(df, std, orig) ==
    IF Has(df.columns, orig) THEN <<orig>>
    ELSE LET similar == {j \in 1..Len(df.columns) : analyze(df.columns[j]) = std}
         IN  IF similar # {} THEN <<df.columns[Min(similar)]>> ELSE <<>>

\* standardized_df[std] = df[col] raises when df[col] is not a Series
ProjectionRaises(df, column_mapping) ==
    \E i \in 1..Len(column_mapping) :
        LET col == FoundColumn(df, column_mapping[i][1], column_mapping[i][2])
        IN  col # <<>> /\ ~IsSeries(df, col[1])

\* the loop over column_mapping.items() from entry i on
RECURSIVE ProjectColumns(_, _, _, _)
ProjectColumns(df, column_mapping, i, standardized_df) ==
    IF i > Len(column_mapping) THEN standardized_df
    ELSE LET std == column_mapping[i][1]
             col == FoundColumn(df, std, column_mapping[i][2])
         IN  ProjectColumns(df, column_mapping, i + 1,
                 IF col # <<>>
                 THEN SetItemSeries(standardized_df, std, Series(df, col[1]))
                 ELSE SetItemScalar(standardized_df, std, NaN))

\* one iteration of the loop over data_info_list; now is datetime.now()
Project(data_info, column_mapping, now) ==
    LET sdf0 == ProjectColumns(data_info.dataframe, column_mapping, 1, EmptyFrame)
        sdf1 == SetItemScalar(sdf0, "source_file", PathName(data_info.file_path))
        sdf2 == SetItemScalar(sdf1, "source_sheet", data_info.sheet_name)
    IN  SetItemScalar(sdf2, "merge_timestamp", now)

\* merged_data after the loop; clock[t] is the time read for table t
ProjectAll(infos, column_mapping, clock) ==
    [t \in 1..Len(infos) |-> Project(infos[t], column_mapping, clock[t])]

\* the part after the loop
Concatenate(frames) ==
    IF frames # <<>>
    THEN LET master == concat(frames)
             data_columns == SelectSeq(master.columns, LAMBDA col : ~Has(PROVENANCE, col))
         IN  IF Len(data_columns) > 0
             THEN drop_duplicates(master, data_columns)
             ELSE master
    ELSE EmptyFrame

(***************************************************************************)
(* generate_summary_report and export_to_excel                             *)
(***************************************************************************)
RECURSIVE SumRowCounts(_)
SumRowCounts(infos) ==
    IF infos = <<>> THEN 0 ELSE Head(infos).row_count + SumRowCounts(Tail(infos))

\* the loop building file_summary, a dict keyed by the base name of the file
RECURSIVE FileSummary(_, _)
FileSummary(infos, file_summary) ==
    IF infos = <<>> THEN file_summary
    ELSE LET info == Head(infos)
             filename == PathName(info.file_path)
             known == \E i \in 1..Len(file_summary) : file_summary[i][1] = filename
             old == IF known
                    THEN file_summary[CHOOSE i \in 1..Len(file_summary) :
                                          file_summary[i][1] = filename][2]
                    ELSE [sheets |-> <<>>, total_rows |-> 0]
             new == [sheets |-> Append(old.sheets, info.sheet_name),
                     total_rows |-> old.total_rows + info.row_count]
         IN  FileSummary(Tail(infos), DictSet(file_summary, filename, new))

\* now is datetime.now() formatted
generate_summary_report(df, infos, now) ==
    [total_files_processed |-> Cardinality({infos[i].file_path : i \in 1..Len(infos)}),
     total_sheets_processed |-> Len(infos),
     total_rows_before_merge |-> SumRowCounts(infos),
     total_rows_after_merge |-> df.index,
     unique_columns_found |-> IF ~IsEmpty(df) THEN Len(df.columns) ELSE 0,
     merge_timestamp |-> now,
     file_details |-> FileSummary(infos, <<>>)]

\* the summary before generate_summary_report has run
NoSummary ==
    [total_files_processed |-> 0, total_sheets_processed |-> 0,
     total_rows_before_merge |-> 0, total_rows_after_merge |-> 0,
     unique_columns_found |-> 0, merge_timestamp |-> "", file_details |-> <<>>]

\* no file at the output path
NoWorkbook ==
    [exists |-> FALSE, complete |-> FALSE, sheet_names |-> <<>>,
     Master_Data |-> EmptyFrame, Merge_Summary |-> NoSummary,
     Column_Mapping |-> <<>>, File_Details |-> <<>>]

\* what the writer leaves behind when a write inside the `with` block fails
PartialWorkbook == [NoWorkbook EXCEPT !.exists = TRUE]

\* the mapping table is written from the mapping of a merger just built
export_to_excel_unmapped(df, summ, mappings) ==
    [exists |-> TRUE, complete |-> TRUE,
     sheet_names |-> (IF ~IsEmpty(df) THEN <<"Master_Data">> ELSE <<>>)
                     \o <<"Merge_Summary", "Column_Mapping">>
                     \o (IF summ.file_details # <<>> THEN <<"File_Details">> ELSE <<>>),
     Master_Data |-> IF ~IsEmpty(df) THEN df ELSE EmptyFrame,
     Merge_Summary |-> summ,
     Column_Mapping |-> <<>>,
     File_Details |-> [i \in 1..Len(summ.file_details) |->
                          [File_Name |-> summ.file_details[i][1],
                           Sheets |-> summ.file_details[i][2].sheets,
                           Total_Rows |-> summ.file_details[i][2].total_rows]]]

\* the workbook export_to_excel writes when nothing fails
export_to_excel(df, summ, mappings) ==
    [exists |-> TRUE, complete |-> TRUE,
     sheet_names |-> (IF ~IsEmpty(df) THEN <<"Master_Data">> ELSE <<>>)
                     \o <<"Merge_Summary", "Column_Mapping">>
                     \o (IF summ.file_details # <<>> THEN <<"File_Details">> ELSE <<>>),
     Master_Data |-> IF ~IsEmpty(df) THEN df ELSE EmptyFrame,
     Merge_Summary |-> summ,
     Column_Mapping |-> mappings,
     File_Details |-> [i \in 1..Len(summ.file_details) |->
                          [File_Name |-> summ.file_details[i][1],
                           Sheets |-> summ.file_details[i][2].sheets,
                           Total_Rows |-> summ.file_details[i][2].total_rows]]]

(***************************************************************************)
(* extract_truck_columns (src/master_merge/simple_fixed_columns.py)        *)
(*                                                                         *)
(* A record is a dict, a sequence of <<key, value>> pairs.                 *)
(***************************************************************************)
target_columns == <<
    <<"truck", <<"truck", "truck_no", "truck_number", "truck#", "trk", "unit", "vehicle">> >>,
    <<"location", <<"location", "gps", "position", "current location", "at">> >>,
    <<"status", <<"status", "condition", "state">> >>,
    <<"remarks", <<"remarks", "note", "comment", "observation", "comments">> >> >>

\* header rows of the sheets given to extract_truck_columns
TruckLayouts == { <<"Truck", "Status", "Notes">>,
                  <<"Truck#", "GPS Location", "Status">>,
                  <<"Vehicle", "Location", "State", "Remarks">>,
                  <<"Notes", "Status">> }

\* some target of col_names occurs in the lower-cased header
MatchesTarget(col, col_names) ==
    \E i \in 1..Len(col_names) : Contains(lower(col), col_names[i])

\* MatchesTarget on the headers of the model, computed once
matches_memo ==
    [col \in UNION {{l[c] : c \in 1..Len(l)} : l \in TruckLayouts} |->
        [t \in 1..Len(target_columns) |-> MatchesTarget(col, target_columns[t][2])]]

Matches(col, t) ==
    IF col \in DOMAIN matches_memo THEN matches_memo[col][t]
    ELSE MatchesTarget(col, target_columns[t][2])

DictHas(dict, key) == \E i \in 1..Len(dict) : dict[i][1] = key

DictGet(dict, key) == dict[CHOOSE i \in 1..Len(dict) : dict[i][1] = key][2]

\* the loop over target_columns.items() from entry t on
RECURSIVE AddTargets(_, _, _)
AddTargets(df, t, record) ==
    IF t > Len(target_columns) THEN record
    ELSE LET found == {j \in 1..Len(df.columns) : Matches(df.columns[j], t)}
         IN  AddTargets(df, t + 1,
                 IF found = {} THEN record
                 ELSE DictSet(record, target_columns[t][1],
                              IF df.index > 0 THEN df.data[Min(found)][1] ELSE ""))

\* the body of the inner try for one sheet: the records appended to all_data;
\* a sheet that cannot be read is passed over by `except: continue`
TruckSheet(file_path, sheet) ==
    IF ~sheet.readable THEN <<>>
    ELSE LET record == AddTargets(read_excel(sheet), 1,
                           << <<"source_file", PathName(file_path)>>,
                              <<"source_sheet", sheet.sheet_name>> >>)
         IN  IF DictHas(record, "truck") THEN <<record>> ELSE <<>>

RECURSIVE TruckSheets(_, _)
TruckSheets(file_path, sheets) ==
    IF sheets = <<>> THEN <<>>
    ELSE TruckSheet(file_path, Head(sheets)) \o TruckSheets(file_path, Tail(sheets))

\* the loop over excel_files from file f on; a file that cannot be opened is
\* passed over by `except: continue`
RECURSIVE TruckFiles(_, _, _)
TruckFiles(files, books, f) ==
    IF f > Len(files) THEN <<>>
    ELSE (IF books[f].openable THEN TruckSheets(files[f], books[f].sheets) ELSE <<>>)
         \o TruckFiles(files, books, f + 1)

\* the keys of the records in the order of their first appearance
RECURSIVE RecordKeys(_, _)
RecordKeys(records, acc) ==
    IF records = <<>> THEN acc
    ELSE LET keys == DictKeys(Head(records))
         IN  RecordKeys(Tail(records),
                        acc \o SelectSeq(keys, LAMBDA k : ~Has(acc, k)))

\* pd.DataFrame(records) for a list of dicts
DataFrameOfRecords(records) ==
    LET cols == RecordKeys(records, <<>>)
    IN  [columns |-> cols,
         index |-> Len(records),
         data |-> [c \in 1..Len(cols) |->
                      [r \in 1..Len(records) |->
                          IF DictHas(records[r], cols[c])
                          THEN DictGet(records[r], cols[c]) ELSE NaN]]]

\* the labels assigned to result_df.columns
TRUCK_COLUMNS ==
    <<"truck_number", "location", "status", "remarks", "source_file", "source_sheet">>

\* no file at output_file
NoFile == [exists |-> FALSE, table |-> EmptyFrame]

(***************************************************************************)
(* Inputs of merge_excel_files: the file list and the workbooks.           *)
(***************************************************************************)
\* the data rows of a sheet, as blocks of rows of three cells; a sheet with
\* fewer columns has the first cells of each row
RowBlocks == { <<>>,
               << <<"T1", "A", "OK">> >>,
               << <<"T2", NaN, "OK">>, <<"T1", "A", "OK">>, <<"T1", "A", "OK">> >> }

\* the rows of block cut to n columns
CutRows(block, n) == [r \in 1..Len(block) |-> SubSeq(block[r], 1, n)]

SheetBodies ==
    {[readable |-> TRUE, columns |-> l, rows |-> CutRows(block, Len(l))] :
        l \in Layouts, block \in RowBlocks}

\* a sheet that pd.read_excel fails on
BadSheet == [readable |-> FALSE, columns |-> <<>>, rows |-> <<>>]

Sheets == SheetBodies \cup {BadSheet}

SheetName(i) == "Sheet" \o ToString(i)

\* the workbooks with k sheets
Books(k) ==
    {[openable |-> TRUE,
      sheets |-> [i \in 1..k |->
                     [sheet_name |-> SheetName(i), readable |-> body[i].readable,
                      columns |-> body[i].columns, rows |-> body[i].rows]]] :
        body \in [1..k -> Sheets]}

\* a file that pd.ExcelFile fails on
BadBook == [openable |-> FALSE, sheets |-> <<>>]

\* the disks holding n sheets in all, an unreadable file counting as one
RECURSIVE Disks(_)
Disks(n) ==
    IF n = 0 THEN {<<>>}
    ELSE UNION {{<<b>> \o d : b \in Books(k) \cup (IF k = 1 THEN {BadBook} ELSE {}),
                              d \in Disks(n - k)} : k \in 1..n}

Dirs == <<"in", "old">>

\* the path of the f-th file: files 1 and 2 have the same name in two folders
FilePath(f) ==
    Dirs[((f - 1) % 2) + 1] \o "/book" \o ToString((f + 1) \div 2) \o ".xlsx"

\* the values datetime.now() returns for the tables of one run: the clock
\* does not go back, and ticks at most once during the loop
Clocks(n) ==
    {[t \in 1..n |-> IF t < k THEN "10:00:00" ELSE "10:00:01"] : k \in 2..(n + 1)}

NormIdle ==
    /\ column_name = ""
    /\ std_col = ""
    /\ std_again = ""
    /\ npc = "idle"

TruckIdle ==
    /\ all_data = <<>>
    /\ result_df = EmptyFrame
    /\ output_file = NoFile
    /\ tpc = "idle"

\* no aggregate summary has been written
NoSummaryJson == [written |-> FALSE, total |-> 0, files |-> {}]

InspectIdle ==
    /\ script = ""
    /\ platform = "posix"
    /\ folder = <<>>
    /\ scan_files = <<>>
    /\ file_i = 0
    /\ output_folder = {}
    /\ summary_json = NoSummaryJson
    /\ ipc = "idle"

GuiIdle ==
    /\ variant = ""
    /\ workbooks = <<>>
    /\ files_to_merge = <<>>
    /\ file_listbox = <<>>
    /\ merge_button = "normal"
    /\ status_label = ""
    /\ progress_var = 0
    /\ after_queue = <<>>
    /\ posted = <<>>
    /\ thread = "idle"

\* a run before its first stage
RunStart ==
    /\ data_info_list = <<>>
    /\ column_mappings = <<>>
    /\ merged_data = <<>>
    /\ master_df = EmptyFrame
    /\ summary = NoSummary
    /\ raised = ""

Init ==
    /\ NormIdle
    /\ TruckIdle
    /\ InspectIdle
    /\ GuiIdle
    /\ disk \in UNION {Disks(n) : n \in 0..MaxTables}
    /\ excel_files = [f \in 1..Len(disk) |-> FilePath(f)]
    /\ RunStart
    /\ output = NoWorkbook
    /\ log = <<>>
    /\ result = "none"
    /\ pc = "start"

(***************************************************************************)
(* merge_excel_files, one action per stage.                                *)
(***************************************************************************)
\* the line printed at the head of a stage
Banner(text) == <<"stage", text>>

\* `if not excel_files: return None, None`
NoExcelFiles ==
    /\ pc = "start"
    /\ excel_files = <<>>
    /\ log' = Append(log, <<"info", "No Excel files found to process!">>)
    /\ result' = "nothing"
    /\ pc' = "returned"
    /\ UNCHANGED <<inspectVars, guiVars, normVars, truckVars, filesVars, data_info_list, column_mappings,
                   merged_data, master_df, summary, raised, output>>

ExtractDataframes ==
    /\ pc = "start"
    /\ excel_files # <<>>
    /\ data_info_list' = extract_dataframes(excel_files, disk)
    /\ log' = Append(log, Banner("EXTRACTING DATA FROM FILES AND SHEETS..."))
                  \o ExtractFilesLog(excel_files, disk, 1)
    /\ pc' = "extracted"
    /\ UNCHANGED <<inspectVars, guiVars, normVars, truckVars, filesVars, column_mappings, merged_data,
                   master_df, summary, raised, output, result>>

\* `if not data_info_list: return None, None`
NoValidData ==
    /\ pc = "extracted"
    /\ data_info_list = <<>>
    /\ log' = Append(log, <<"info", "No valid data found in the files!">>)
    /\ result' = "nothing"
    /\ pc' = "returned"
    /\ UNCHANGED <<inspectVars, guiVars, normVars, truckVars, filesVars, data_info_list, column_mappings,
                   merged_data, master_df, summary, raised, output>>

CreateColumnMapping ==
    /\ pc = "extracted"
    /\ data_info_list # <<>>
    /\ column_mappings' \in create_column_mapping(data_info_list)
    /\ log' = Append(log, Banner("ANALYZING COLUMNS AND CREATING MAPPING..."))
    /\ pc' = "mapped"
    /\ UNCHANGED <<inspectVars, guiVars, normVars, truckVars, filesVars, data_info_list, merged_data,
                   master_df, summary, raised, output, result>>

\* merge_dataframes returns
MergeDataframes ==
    /\ pc = "mapped"
    /\ \A t \in 1..Len(data_info_list) :
           ~ProjectionRaises(data_info_list[t].dataframe, column_mappings)
    /\ \E clock \in Clocks(Len(data_info_list)) :
           /\ merged_data' = ProjectAll(data_info_list, column_mappings, clock)
           /\ master_df' = Concatenate(merged_data')
    /\ log' = Append(log, Banner("MERGING DATA..."))
    /\ pc' = "merged"
    /\ UNCHANGED <<inspectVars, guiVars, normVars, truckVars, filesVars, data_info_list, column_mappings,
                   summary, raised, output, result>>

\* merge_dataframes raises; nothing in merge_excel_files catches it
MergeRaises ==
    /\ pc = "mapped"
    /\ \E t \in 1..Len(data_info_list) :
           ProjectionRaises(data_info_list[t].dataframe, column_mappings)
    /\ log' = Append(log, Banner("MERGING DATA..."))
    /\ raised' = "merge_dataframes"
    /\ result' = "exception"
    /\ pc' = "returned"
    /\ UNCHANGED <<inspectVars, guiVars, normVars, truckVars, filesVars, data_info_list, column_mappings,
                   merged_data, master_df, summary, output>>

\* `if master_df.empty: return None, None`
NoDataToMerge ==
    /\ pc = "merged"
    /\ IsEmpty(master_df)
    /\ log' = Append(log, <<"info", "No data to merge!">>)
    /\ result' = "nothing"
    /\ pc' = "returned"
    /\ UNCHANGED <<inspectVars, guiVars, normVars, truckVars, filesVars, data_info_list, column_mappings,
                   merged_data, master_df, summary, raised, output>>

GenerateSummary ==
    /\ pc = "merged"
    /\ ~IsEmpty(master_df)
    /\ \E now \in {"10:00:01", "10:00:02"} :
           summary' = generate_summary_report(master_df, data_info_list, now)
    /\ log' = Append(log, Banner("GENERATING SUMMARY..."))
    /\ pc' = "summarized"
    /\ UNCHANGED <<inspectVars, guiVars, normVars, truckVars, filesVars, data_info_list, column_mappings,
                   merged_data, master_df, raised, output, result>>

\* the summary is generated once more after the export
ExportToExcel_resummarized ==
    /\ pc = "summarized"
    /\ output' = export_to_excel(master_df, summary, column_mappings)
    /\ summary' = generate_summary_report(master_df, data_info_list, "10:00:03")
    /\ log' = log \o <<Banner("EXPORTING TO EXCEL..."), <<"info", "Master file created">>,
                        Banner("GENERATING SUMMARY...")>>
    /\ result' = "success"
    /\ pc' = "returned"
    /\ UNCHANGED <<inspectVars, guiVars, normVars, truckVars, filesVars, data_info_list, column_mappings,
                   merged_data, master_df, raised>>

\* export_to_excel returns and merge_excel_files returns master_df, summary
ExportToExcel ==
    /\ pc = "summarized"
    /\ output' = export_to_excel(master_df, summary, column_mappings)
    /\ log' = log \o <<Banner("EXPORTING TO EXCEL..."), <<"info", "Master file created">> >>
    /\ result' = "success"
    /\ pc' = "returned"
    /\ UNCHANGED <<inspectVars, guiVars, normVars, truckVars, filesVars, data_info_list, column_mappings,
                   merged_data, master_df, summary, raised>>

\* the failure of the export is caught and the run ends as nothing to merge
ExportRaises_swallowed ==
    /\ pc = "summarized"
    /\ output' \in {output, PartialWorkbook}
    /\ log' = Append(log, Banner("EXPORTING TO EXCEL..."))
    /\ raised' = "export_to_excel"
    /\ result' = "nothing"
    /\ pc' = "returned"
    /\ UNCHANGED <<inspectVars, guiVars, normVars, truckVars, filesVars, data_info_list, column_mappings,
                   merged_data, master_df, summary>>

\* the writer cannot open the output path, or a write inside the `with`
\* block fails and the writer is closed on what was written; nothing in
\* export_to_excel or merge_excel_files catches the exception
ExportRaises ==
    /\ pc = "summarized"
    /\ output' \in {output, PartialWorkbook}
    /\ log' = Append(log, Banner("EXPORTING TO EXCEL..."))
    /\ raised' = "export_to_excel"
    /\ result' = "exception"
    /\ pc' = "returned"
    /\ UNCHANGED <<inspectVars, guiVars, normVars, truckVars, filesVars, data_info_list, column_mappings,
                   merged_data, master_df, summary>>

Next ==
    \/ NoExcelFiles
    \/ ExtractDataframes
    \/ NoValidData
    \/ CreateColumnMapping
    \/ MergeDataframes
    \/ MergeRaises
    \/ NoDataToMerge
    \/ GenerateSummary
    \/ ExportToExcel
    \/ ExportRaises

Spec == Init /\ [][Next]_vars

(***************************************************************************)
(* Specification SpecNorm: analyze_column applied to bounded headers.      *)
(***************************************************************************)
Fragments == {" ", "Truck", "_No", "TRK", "#", "time", "stamp", "velo",
              "city", "lat", "lo", "ng", "Status", "x", "GPS"}

RECURSIVE HeadersUpTo(_)
HeadersUpTo(n) ==
    IF n = 0 THEN {""}
    ELSE LET shorter == HeadersUpTo(n - 1)
         IN  shorter \cup {h \o f : h \in shorter, f \in Fragments}

\* the substrings of the table, each as a header of its own
TableSubstrings == {replacements[i][1] : i \in 1..Len(replacements)}

HeaderInputs == HeadersUpTo(MaxFrags) \cup TableSubstrings \cup {NaN}

PipeIdle ==
    /\ excel_files = <<>>
    /\ disk = <<>>
    /\ RunStart
    /\ output = NoWorkbook
    /\ log = <<>>
    /\ result = "none"
    /\ pc = "idle"

InitNorm ==
    /\ column_name \in HeaderInputs
    /\ std_col = ""
    /\ std_again = ""
    /\ npc = "call"
    /\ PipeIdle
    /\ TruckIdle
    /\ InspectIdle
    /\ GuiIdle

AnalyzeColumn ==
    /\ npc = "call"
    /\ std_col' = analyze_column(column_name)
    /\ npc' = "return"
    /\ UNCHANGED <<inspectVars, guiVars, column_name, std_again, pipeVars, truckVars>>

\* analyze_column called on the value it returned
AnalyzeAgain ==
    /\ npc = "return"
    /\ std_again' = analyze_column(std_col)
    /\ npc' = "again"
    /\ UNCHANGED <<inspectVars, guiVars, column_name, std_col, pipeVars, truckVars>>

NextNorm ==
    \/ AnalyzeColumn
    \/ AnalyzeAgain

SpecNorm == InitNorm /\ [][NextNorm]_vars

(***************************************************************************)
(* Specification SpecTruck: extract_truck_columns on bounded workbooks.    *)
(***************************************************************************)
\* the data rows of a sheet, as blocks of rows of four cells
TruckRowBlocks == { <<>>,
                    << <<"T1", "A", "OK", "late">> >>,
                    << <<"T2", NaN, "OK", "x">>, <<"T1", "A", "OK", "late">> >> }

TruckSheetBodies ==
    {[readable |-> TRUE, columns |-> l, rows |-> CutRows(block, Len(l))] :
        l \in TruckLayouts, block \in TruckRowBlocks}

TruckBooks(k) ==
    {[openable |-> TRUE,
      sheets |-> [i \in 1..k |->
                     [sheet_name |-> SheetName(i), readable |-> body[i].readable,
                      columns |-> body[i].columns, rows |-> body[i].rows]]] :
        body \in [1..k -> TruckSheetBodies \cup {BadSheet}]}

\* the disks holding n sheets in all, an unreadable file counting as one
RECURSIVE TruckDisks(_)
TruckDisks(n) ==
    IF n = 0 THEN {<<>>}
    ELSE UNION {{<<b>> \o d : b \in TruckBooks(k) \cup (IF k = 1 THEN {BadBook} ELSE {}),
                              d \in TruckDisks(n - k)} : k \in 1..n}

InitTruck ==
    /\ NormIdle
    /\ InspectIdle
    /\ GuiIdle
    /\ disk \in UNION {TruckDisks(n) : n \in 0..MaxTables}
    /\ excel_files = [f \in 1..Len(disk) |-> FilePath(f)]
    /\ RunStart
    /\ output = NoWorkbook
    /\ log = <<>>
    /\ result = "none"
    /\ pc = "idle"
    /\ all_data = <<>>
    /\ result_df = EmptyFrame
    /\ output_file = NoFile
    /\ tpc = "start"

\* the loop over excel_files
CollectRecords ==
    /\ tpc = "start"
    /\ all_data' = TruckFiles(excel_files, disk, 1)
    /\ tpc' = "collected"
    /\ UNCHANGED <<inspectVars, guiVars, normVars, pipeVars, result_df, output_file>>

\* `return None` when no record was collected
ReturnNone ==
    /\ tpc = "collected"
    /\ all_data = <<>>
    /\ tpc' = "returned_none"
    /\ UNCHANGED <<inspectVars, guiVars, normVars, pipeVars, all_data, result_df, output_file>>

\* result_df.columns = [six labels] raises when the table built from the
\* records does not have six columns
RenameRaises ==
    /\ tpc = "collected"
    /\ all_data # <<>>
    /\ Len(DataFrameOfRecords(all_data).columns) # Len(TRUCK_COLUMNS)
    /\ result_df' = DataFrameOfRecords(all_data)
    /\ tpc' = "raised"
    /\ UNCHANGED <<inspectVars, guiVars, normVars, pipeVars, all_data, output_file>>

\* the table is relabelled, written to output_file and returned
WriteTruckMaster ==
    /\ tpc = "collected"
    /\ all_data # <<>>
    /\ Len(DataFrameOfRecords(all_data).columns) = Len(TRUCK_COLUMNS)
    /\ result_df' = [DataFrameOfRecords(all_data) EXCEPT !.columns = TRUCK_COLUMNS]
    /\ output_file' = [exists |-> TRUE, table |-> result_df']
    /\ log' = Append(log, <<"info", "Created output_file">>)
    /\ tpc' = "returned_table"
    /\ UNCHANGED <<inspectVars, guiVars, normVars, filesVars, runVars, output, all_data>>

\* result_df.to_excel raises
WriteRaises ==
    /\ tpc = "collected"
    /\ all_data # <<>>
    /\ Len(DataFrameOfRecords(all_data).columns) = Len(TRUCK_COLUMNS)
    /\ result_df' = [DataFrameOfRecords(all_data) EXCEPT !.columns = TRUCK_COLUMNS]
    /\ tpc' = "raised"
    /\ UNCHANGED <<inspectVars, guiVars, normVars, pipeVars, all_data, output_file>>

NextTruck ==
    \/ CollectRecords
    \/ ReturnNone
    \/ RenameRaises
    \/ WriteTruckMaster
    \/ WriteRaises

SpecTruck == InitTruck /\ [][NextTruck]_vars

(***************************************************************************)
(* Directory scanning and the inspection scripts: find_excel_files of      *)
(* main.py, process_excel.py and excel_to_json.py.  A folder is the        *)
(* sequence of names os.listdir returns; every entry is a regular file.    *)
(* A JSON document in the output folder is a record                        *)
(*   [json_file : its name, filename : the "filename" it records,          *)
(*    run : 1 when this run wrote it, 0 when it was there before].         *)
(***************************************************************************)
MaxEntries == 3

EntryNames ==
    {"data.xlsx", "DATA.XLSX", "data.xls", "book.xlsb", "a b.xlsm", "a_b.xlsm",
     "notes.txt"}

\* str.endswith
endswith(s, suffix) ==
    /\ Len(s) >= Len(suffix)
    /\ SubSeq(s, Len(s) - Len(suffix) + 1, Len(s)) = suffix

\* str.replace for one character
RECURSIVE replace(_, _, _)
replace(s, old, new) ==
    IF s = "" THEN ""
    ELSE (IF SubSeq(s, 1, 1) = old THEN new ELSE SubSeq(s, 1, 1))
             \o replace(SubSeq(s, 2, Len(s)), old, new)

\* os.path.splitext(filename)[0]: the name up to its last dot, when that dot
\* is not the first character
RECURSIVE splitext_root(_)
splitext_root(filename) ==
    IF Len(filename) <= 1 THEN filename
    ELSE IF SubSeq(filename, Len(filename), Len(filename)) = "."
         THEN SubSeq(filename, 1, Len(filename) - 1)
         ELSE IF Contains(SubSeq(filename, 2, Len(filename) - 1), ".")
              THEN splitext_root(SubSeq(filename, 1, Len(filename) - 1))
              ELSE filename

excel_extensions == <<".xlsx", ".xls", ".xlsm", ".xlsb">>

\* the pattern "*" + ext of Path.glob: the name ends with ext; names are
\* compared as they are on posix, without regard to case on windows
fnmatch(name, ext, plat) ==
    IF plat = "windows" THEN endswith(lower(name), lower(ext))
    ELSE endswith(name, ext)

\* process_excel.py: f.endswith(('.xlsx', '.xls', '.xlsm'))
process_excel_extensions == <<".xlsx", ".xls", ".xlsm">>

\* excel_to_json.py: any(file.lower().endswith(ext) for ext in excel_extensions)
excel_to_json_extensions == <<".xlsx", ".xls", ".xlsm">>

\* the name of the document of a workbook, and in excel_to_json.py of its
\* error document
json_filename(prog, filename) ==
    IF prog = "excel_to_json" THEN splitext_root(filename) \o "_info.json"
    ELSE IF prog = "excel_to_json_error" THEN splitext_root(filename) \o "_error.json"
    ELSE replace(replace(filename, " ", "_"), ".", "_") \o "_info.json"

\* the functions above are pure; their values on the names a folder may
\* hold are computed once
scan_memo ==
    [name \in EntryNames |->
        [lower |-> lower(name),
         glob |-> [plat \in {"posix", "windows"} |->
                      [e \in 1..Len(excel_extensions) |->
                          fnmatch(name, excel_extensions[e], plat)]],
         process_excel |->
             \E e \in 1..Len(process_excel_extensions) :
                 endswith(name, process_excel_extensions[e]),
         excel_to_json |->
             \E e \in 1..Len(excel_to_json_extensions) :
                 endswith(lower(name), excel_to_json_extensions[e]),
         json_filename |->
             [prog \in {"excel_to_json", "excel_to_json_error", "process_excel"} |->
                 json_filename(prog, name)]]]

\* Path(directory).glob("*" + excel_extensions[e])
glob(names, e, plat) == SelectSeq(names, LAMBDA name : scan_memo[name].glob[plat][e])

\* find_excel_files: the matches of each extension in turn
find_excel_files(names, plat) ==
    glob(names, 1, plat) \o glob(names, 2, plat) \o glob(names, 3, plat)
        \o glob(names, 4, plat)

process_excel_listing(names) == SelectSeq(names, LAMBDA f : scan_memo[f].process_excel)

excel_to_json_listing(names) ==
    SelectSeq(names, LAMBDA file : scan_memo[file].excel_to_json)

\* open(json_path, 'w'): the document replaces the one of the same name
WriteDocument(docs, json_file, filename) ==
    {d \in docs : d.json_file # json_file}
        \cup {[json_file |-> json_file, filename |-> filename, run |-> 1]}

\* the files the summary collects: f.endswith('_info.json')
InfoDocuments(docs) == {d \in docs : endswith(d.json_file, "_info.json")}

\* the listings of at most MaxEntries names
Listings ==
    {names \in UNION {[1..n -> EntryNames] : n \in 0..MaxEntries} :
        \A i, j \in 1..Len(names) : i # j => names[i] # names[j]}

InitInspect ==
    /\ NormIdle
    /\ TruckIdle
    /\ GuiIdle
    /\ PipeIdle
    /\ script \in {"find_excel_files", "process_excel", "excel_to_json"}
    /\ platform \in {"posix", "windows"}
    /\ folder \in Listings
    \* a folder that ignores case holds no two names that differ in case only
    /\ platform = "windows" =>
           \A i, j \in 1..Len(folder) :
               i # j => scan_memo[folder[i]].lower # scan_memo[folder[j]].lower
    /\ scan_files = <<>>
    /\ file_i = 0
    \* excel_to_json.py writes into a folder that may hold a document of an
    \* earlier run; process_excel.py makes a folder of its own
    /\ output_folder \in
           (IF script = "excel_to_json"
            THEN {{}, {[json_file |-> "old_info.json", filename |-> "old.xlsx",
                        run |-> 0]}}
            ELSE {{}})
    /\ summary_json = NoSummaryJson
    /\ ipc = "start"

\* ExcelMerger.find_excel_files(directory)
FindExcelFiles ==
    /\ ipc = "start"
    /\ script = "find_excel_files"
    /\ scan_files' = find_excel_files(folder, platform)
    /\ ipc' = "done"
    /\ UNCHANGED <<normVars, pipeVars, truckVars, guiVars, script, platform, folder,
                   file_i, output_folder, summary_json>>

\* process_excel.py: the listing; with no workbook the script returns
ListProcessExcel ==
    /\ ipc = "start"
    /\ script = "process_excel"
    /\ scan_files' = process_excel_listing(folder)
    /\ ipc' = (IF scan_files' = <<>> THEN "done" ELSE "loop")
    /\ UNCHANGED <<normVars, pipeVars, truckVars, guiVars, script, platform, folder,
                   file_i, output_folder, summary_json>>

\* excel_to_json.py: the listing; with no workbook process_excel_files
\* returns and the main block goes on to create_summary_json
ListExcelToJson ==
    /\ ipc = "start"
    /\ script = "excel_to_json"
    /\ scan_files' = excel_to_json_listing(folder)
    /\ ipc' = "loop"
    /\ UNCHANGED <<normVars, pipeVars, truckVars, guiVars, script, platform, folder,
                   file_i, output_folder, summary_json>>

\* one pass of `for filename in excel_files`: the document is saved
SaveJson ==
    /\ ipc = "loop"
    /\ file_i < Len(scan_files)
    /\ file_i' = file_i + 1
    /\ output_folder' = WriteDocument(output_folder,
                                      scan_memo[scan_files[file_i']].json_filename[script],
                                      scan_files[file_i'])
    /\ UNCHANGED <<normVars, pipeVars, truckVars, guiVars, script, platform, folder,
                   scan_files, summary_json, ipc>>

\* one pass of the loop in which pd.ExcelFile raises: excel_to_json.py saves
\* an error document, process_excel.py prints the error
FileError ==
    /\ ipc = "loop"
    /\ file_i < Len(scan_files)
    /\ file_i' = file_i + 1
    /\ output_folder' =
           IF script = "excel_to_json"
           THEN WriteDocument(output_folder, scan_memo[scan_files[file_i']].json_filename["excel_to_json_error"],
                              scan_files[file_i'])
           ELSE output_folder
    /\ UNCHANGED <<normVars, pipeVars, truckVars, guiVars, script, platform, folder,
                   scan_files, summary_json, ipc>>

\* process_excel.py create_summary(output_folder)
CreateSummary ==
    /\ ipc = "loop"
    /\ script = "process_excel"
    /\ file_i = Len(scan_files)
    /\ summary_json' = [written |-> TRUE,
                        total |-> Cardinality(InfoDocuments(output_folder)),
                        files |-> InfoDocuments(output_folder)]
    /\ ipc' = "done"
    /\ UNCHANGED <<normVars, pipeVars, truckVars, guiVars, script, platform, folder,
                   scan_files, file_i, output_folder>>

\* excel_to_json.py create_summary_json(folder_path)
CreateSummaryJson ==
    /\ ipc = "loop"
    /\ script = "excel_to_json"
    /\ file_i = Len(scan_files)
    /\ summary_json' = [written |-> TRUE,
                        total |-> Cardinality(InfoDocuments(output_folder)),
                        files |-> InfoDocuments(output_folder)]
    /\ ipc' = "done"
    /\ UNCHANGED <<normVars, pipeVars, truckVars, guiVars, script, platform, folder,
                   scan_files, file_i, output_folder>>

NextInspect ==
    \/ FindExcelFiles
    \/ ListProcessExcel
    \/ ListExcelToJson
    \/ SaveJson
    \/ FileError
    \/ CreateSummary
    \/ CreateSummaryJson

SpecInspect == InitInspect /\ [][NextInspect]_vars

(***************************************************************************)
(* The GUI (excel_merger_gui.py and gui.py).  The interface thread runs    *)
(* the handlers add_files, add_folder, remove_selected, start_merge and    *)
(* the callbacks posted with root.after; the worker thread runs            *)
(* perform_merge, which calls merge_excel_files: its stages are the        *)
(* actions of the pipeline above.  The ExcelMerger class of                *)
(* excel_merger_gui.py is a copy of the one of main.py.                    *)
(***************************************************************************)
\* the paths the file dialogs offer
GuiPathSet == {FilePath(1), FilePath(2)}

\* str(Path(folder)): the folder of a path
RECURSIVE PathParent(_)
PathParent(file_path) ==
    IF file_path = "" \/ SubSeq(file_path, Len(file_path), Len(file_path)) = "/"
    THEN SubSeq(file_path, 1, Len(file_path) - 1)
    ELSE PathParent(SubSeq(file_path, 1, Len(file_path) - 1))

\* Path(file).name and the folder of the paths the dialogs offer
path_memo ==
    [file \in GuiPathSet |-> [name |-> PathName(file), parent |-> PathParent(file)]]

\* a workbook with valid rows; the others have headers that collide after
\* strip(), have no recognised column, or cannot be opened
GoodBook ==
    [openable |-> TRUE,
     sheets |-> << [sheet_name |-> SheetName(1), readable |-> TRUE,
                    columns |-> <<"Truck#", "GPS Location", "Status">>,
                    rows |-> << <<"T1", "A", "OK">> >>] >>]

\* what the paths hold
GuiDisks ==
    LET OneSheet(columns, row) ==
            [openable |-> TRUE,
             sheets |-> << [sheet_name |-> SheetName(1), readable |-> TRUE,
                            columns |-> columns, rows |-> <<row>>] >>]
        CollidingBook == OneSheet(<<"Truck", "Truck ">>, <<"T1", "A">>)
        BlankBook == OneSheet(<<" ">>, <<"T1">>)
    IN  {[file \in GuiPathSet |-> GoodBook],
         [file \in GuiPathSet |-> IF file = FilePath(1) THEN GoodBook ELSE CollidingBook],
         [file \in GuiPathSet |-> IF file = FilePath(1) THEN BlankBook ELSE BadBook]}

\* the workbooks of a list of paths, by position
DiskOf(files, books) == [i \in 1..Len(files) |-> books[files[i]]]

\* the entry the listbox shows for a file name; "* " stands for the icon
\* excel_merger_gui.py puts before the name
Entry(v, name) == IF v = "excel_merger_gui" THEN "* " \o name ELSE name

\* the tuples askopenfilenames returns: nothing, or up to two files
Selections ==
    {<<>>} \cup {<<file>> : file \in GuiPathSet}
        \cup {files \in GuiPathSet \X GuiPathSet : files[1] # files[2]}

\* the body of `for file in files` without the test of membership
RECURSIVE AddEach_unchecked(_, _, _)
AddEach_unchecked(files, st, v) ==
    IF files = <<>> THEN st
    ELSE AddEach_unchecked(Tail(files),
             [files_to_merge |-> Append(st.files_to_merge, Head(files)),
              file_listbox |-> Append(st.file_listbox, Entry(v, path_memo[Head(files)].name)),
              files_added |-> st.files_added + 1], v)

\* `for file in files: if file not in self.files_to_merge: append, insert`
RECURSIVE AddEach(_, _, _)
AddEach(files, st, v) ==
    IF files = <<>> THEN st
    ELSE AddEach(Tail(files),
             IF Has(st.files_to_merge, Head(files)) THEN st
             ELSE [files_to_merge |-> Append(st.files_to_merge, Head(files)),
                   file_listbox |-> Append(st.file_listbox,
                                           Entry(v, path_memo[Head(files)].name)),
                   files_added |-> st.files_added + 1], v)

\* `for index in selected[::-1]: pop(index); delete(index)`, positions
\* counted from 1
RECURSIVE RemoveEach(_, _)
RemoveEach(selected, st) ==
    LET Pop(seq, index) == SubSeq(seq, 1, index - 1) \o SubSeq(seq, index + 1, Len(seq))
    IN  IF selected = <<>> THEN st
        ELSE RemoveEach(SubSeq(selected, 1, Len(selected) - 1),
                 [files_to_merge |-> Pop(st.files_to_merge, selected[Len(selected)]),
                  file_listbox |-> Pop(st.file_listbox, selected[Len(selected)])])

\* curselection() of a listbox in its default selectmode: at most one entry
CurSelections(listbox) == {<<>>} \cup {<<index>> : index \in 1..Len(listbox)}

\* the orders in which glob may yield the files of a folder
FolderListings(folder_path) ==
    {files \in UNION {[1..n -> GuiPathSet] : n \in 0..Cardinality(GuiPathSet)} :
        /\ \A i, j \in 1..Len(files) : i # j => files[i] # files[j]
        /\ {files[i] : i \in 1..Len(files)} =
               {file \in GuiPathSet : path_memo[file].parent = folder_path}}

\* the text of the status label while a merge runs
Processing(v) == IF v = "excel_merger_gui" THEN "Processing files... Please wait"
                 ELSE "Processing..."

\* the list passed to merge_excel_files is self.files_to_merge itself: while
\* the call runs a change of the list is a change of excel_files
SetFiles(files) ==
    /\ files_to_merge' = files
    /\ IF thread = "merging"
       THEN excel_files' = files /\ disk' = DiskOf(files, workbooks)
       ELSE UNCHANGED filesVars

\* merge_excel_files has returned or raised: its arguments and locals are
\* gone; what it returned and what it raised are kept
ReturnFrame ==
    /\ excel_files' = <<>>
    /\ disk' = <<>>
    /\ data_info_list' = <<>>
    /\ column_mappings' = <<>>
    /\ merged_data' = <<>>
    /\ master_df' = EmptyFrame
    /\ summary' = NoSummary
    /\ log' = <<>>
    /\ pc' = "idle"

InitGui ==
    /\ NormIdle
    /\ TruckIdle
    /\ InspectIdle
    /\ PipeIdle
    /\ variant \in {"excel_merger_gui", "gui"}
    /\ workbooks \in GuiDisks
    /\ files_to_merge = <<>>
    /\ file_listbox = <<>>
    /\ merge_button = "normal"
    /\ status_label = (IF variant = "excel_merger_gui" THEN "Ready to merge files"
                       ELSE "Ready")
    /\ progress_var = 0
    /\ after_queue = <<>>
    /\ posted = <<>>
    /\ thread = "idle"

(***************************************************************************)
(* Handlers of the interface thread.                                       *)
(***************************************************************************)
AddFiles ==
    \E files \in Selections :
        LET st == AddEach(files, [files_to_merge |-> files_to_merge,
                                  file_listbox |-> file_listbox,
                                  files_added |-> 0], variant)
        IN  /\ SetFiles(st.files_to_merge)
            /\ file_listbox' = st.file_listbox
            /\ status_label' =
                   IF variant = "excel_merger_gui" /\ files # <<>>
                   THEN "Added " \o ToString(Len(files)) \o " file(s)"
                   ELSE status_label
            /\ UNCHANGED <<normVars, truckVars, inspectVars, runVars, output, log,
                           variant, workbooks, merge_button, progress_var,
                           after_queue, posted, thread>>

AddFolder ==
    \E folder_path \in {Dirs[i] : i \in 1..Len(Dirs)} :
    \E listing \in FolderListings(folder_path) :
        LET found == SelectSeq(listing, LAMBDA file :
                         \E e \in 1..Len(excel_extensions) :
                             fnmatch(path_memo[file].name, excel_extensions[e], platform))
            st == AddEach(found, [files_to_merge |-> files_to_merge,
                                  file_listbox |-> file_listbox,
                                  files_added |-> 0], variant)
        IN  /\ SetFiles(st.files_to_merge)
            /\ file_listbox' = st.file_listbox
            /\ status_label' =
                   IF variant # "excel_merger_gui" THEN status_label
                   ELSE IF st.files_added > 0
                        THEN "Added " \o ToString(st.files_added) \o " file(s) from folder"
                        ELSE "No Excel files found in the folder"
            /\ UNCHANGED <<normVars, truckVars, inspectVars, runVars, output, log,
                           variant, workbooks, merge_button, progress_var,
                           after_queue, posted, thread>>

\* remove_selected when curselection() returns selected
RemoveSelectedAt(selected) ==
    LET st == RemoveEach(selected, [files_to_merge |-> files_to_merge,
                                    file_listbox |-> file_listbox])
    IN  /\ SetFiles(st.files_to_merge)
        /\ file_listbox' = st.file_listbox
        /\ status_label' =
               IF variant = "excel_merger_gui" /\ selected # <<>>
               THEN "Removed " \o ToString(Len(selected)) \o " file(s)"
               ELSE status_label
        /\ UNCHANGED <<normVars, truckVars, inspectVars, runVars, output, log,
                       variant, workbooks, merge_button, progress_var,
                       after_queue, posted, thread>>

RemoveSelected ==
    \E selected \in CurSelections(file_listbox) : RemoveSelectedAt(selected)

\* start_merge is the command of the merge button: a disabled button does
\* not call it; with an empty list it shows an error and returns
StartMerge ==
    /\ merge_button = "normal"
    /\ IF files_to_merge = <<>>
       THEN UNCHANGED <<merge_button, status_label, progress_var, posted, thread>>
       ELSE /\ merge_button' = "disabled"
            /\ status_label' = Processing(variant)
            /\ progress_var' = (IF variant = "excel_merger_gui" THEN 10 ELSE progress_var)
            /\ posted' = <<>>
            /\ thread' = "started"
    /\ UNCHANGED <<normVars, truckVars, inspectVars, pipeVars, variant, workbooks,
                   files_to_merge, file_listbox, after_queue>>

(***************************************************************************)
(* The worker thread: perform_merge.                                       *)
(***************************************************************************)
\* excel_merger_gui.py: up to the call of merge_excel_files
PerformMergeCall ==
    /\ thread = "started"
    /\ variant = "excel_merger_gui"
    /\ after_queue' = after_queue \o << <<"progress", 20>>, <<"progress", 40>> >>
    /\ excel_files' = files_to_merge
    /\ disk' = DiskOf(files_to_merge, workbooks)
    /\ data_info_list' = <<>>
    /\ column_mappings' = <<>>
    /\ merged_data' = <<>>
    /\ master_df' = EmptyFrame
    /\ summary' = NoSummary
    /\ raised' = ""
    /\ log' = <<>>
    /\ result' = "none"
    /\ pc' = "start"
    /\ thread' = "merging"
    /\ UNCHANGED <<normVars, truckVars, inspectVars, output, variant, workbooks,
                   files_to_merge, file_listbox, merge_button, status_label,
                   progress_var, posted>>

\* gui.py does not import ExcelMerger: `ExcelMerger(output_path=...)` raises
\* NameError, and the handler posts merge_error with the message as argument
PerformMergeNameError ==
    /\ thread = "started"
    /\ variant = "gui"
    /\ raised' = "NameError"
    /\ after_queue' = Append(after_queue, <<"merge_error", "NameError">>)
    /\ posted' = Append(posted, "merge_error")
    /\ thread' = "finished"
    /\ UNCHANGED <<normVars, truckVars, inspectVars, filesVars, data_info_list,
                   column_mappings, merged_data, master_df, summary, result, pc,
                   output, log, variant, workbooks, files_to_merge, file_listbox,
                   merge_button, status_label, progress_var>>

\* merge_excel_files returned a table: progress and merge_complete are posted
PostMergeComplete ==
    /\ thread = "merging"
    /\ pc = "returned"
    /\ result = "success"
    /\ after_queue' = after_queue \o << <<"progress", 80>>, <<"merge_complete", summary>> >>
    /\ posted' = Append(posted, "merge_complete")
    /\ thread' = "finished"
    /\ ReturnFrame
    /\ UNCHANGED <<normVars, truckVars, inspectVars, output, result, raised, variant,
                   workbooks, files_to_merge, file_listbox, merge_button,
                   status_label, progress_var>>

\* merge_excel_files returned None, None
PostMergeFailed ==
    /\ thread = "merging"
    /\ pc = "returned"
    /\ result = "nothing"
    /\ after_queue' = after_queue \o << <<"progress", 80>>, <<"merge_failed">> >>
    /\ posted' = Append(posted, "merge_failed")
    /\ thread' = "finished"
    /\ ReturnFrame
    /\ UNCHANGED <<normVars, truckVars, inspectVars, output, result, raised, variant,
                   workbooks, files_to_merge, file_listbox, merge_button,
                   status_label, progress_var>>

\* merge_excel_files raised: the handler posts `lambda: self.merge_error(str(e))`
\* and is still inside the except block, where e is bound
PostMergeError ==
    /\ thread = "merging"
    /\ pc = "returned"
    /\ result = "exception"
    /\ after_queue' = Append(after_queue, <<"merge_error_lambda", raised>>)
    /\ posted' = Append(posted, "merge_error")
    /\ thread' = "in_except"
    /\ ReturnFrame
    /\ UNCHANGED <<normVars, truckVars, inspectVars, output, result, raised, variant,
                   workbooks, files_to_merge, file_listbox, merge_button,
                   status_label, progress_var>>

\* the end of the except block unbinds e
LeaveExcept ==
    /\ thread = "in_except"
    /\ thread' = "finished"
    /\ UNCHANGED <<normVars, truckVars, inspectVars, pipeVars, variant, workbooks,
                   files_to_merge, file_listbox, merge_button, status_label,
                   progress_var, after_queue, posted>>

(***************************************************************************)
(* The callbacks the event loop runs, first posted first.                  *)
(***************************************************************************)
ProgressCallback ==
    /\ after_queue # <<>>
    /\ Head(after_queue)[1] = "progress"
    /\ progress_var' = Head(after_queue)[2]
    /\ after_queue' = Tail(after_queue)
    /\ UNCHANGED <<normVars, truckVars, inspectVars, pipeVars, variant, workbooks,
                   files_to_merge, file_listbox, merge_button, status_label,
                   posted, thread>>

MergeComplete ==
    /\ after_queue # <<>>
    /\ Head(after_queue)[1] = "merge_complete"
    /\ progress_var' = 100
    /\ merge_button' = "normal"
    /\ status_label' = "Merge Complete!"
    /\ after_queue' = Tail(after_queue)
    /\ UNCHANGED <<normVars, truckVars, inspectVars, pipeVars, variant, workbooks,
                   files_to_merge, file_listbox, posted, thread>>

MergeFailed ==
    /\ after_queue # <<>>
    /\ Head(after_queue)[1] = "merge_failed"
    /\ progress_var' = 0
    /\ merge_button' = "normal"
    /\ status_label' = "Merge failed - No valid data found"
    /\ after_queue' = Tail(after_queue)
    /\ UNCHANGED <<normVars, truckVars, inspectVars, pipeVars, variant, workbooks,
                   files_to_merge, file_listbox, posted, thread>>

\* merge_error(error_msg): gui.py got the message when the callback was
\* posted; the lambda of excel_merger_gui.py reads e, which is bound while
\* the worker has not left the except block
MergeError ==
    /\ after_queue # <<>>
    /\ \/ Head(after_queue)[1] = "merge_error"
       \/ Head(after_queue)[1] = "merge_error_lambda" /\ thread = "in_except"
    /\ progress_var' = (IF variant = "excel_merger_gui" THEN 0 ELSE progress_var)
    /\ merge_button' = "normal"
    /\ status_label' =
           IF variant = "excel_merger_gui"
           THEN "Error: " \o SubSeq(Head(after_queue)[2], 1,
                                    Min({50, Len(Head(after_queue)[2])})) \o "..."
           ELSE "Error: " \o Head(after_queue)[2]
    /\ after_queue' = Tail(after_queue)
    /\ UNCHANGED <<normVars, truckVars, inspectVars, pipeVars, variant, workbooks,
                   files_to_merge, file_listbox, posted, thread>>

\* the lambda runs after the worker left the except block: reading e raises
\* NameError inside the callback and merge_error is not called
MergeErrorUnbound ==
    /\ after_queue # <<>>
    /\ Head(after_queue)[1] = "merge_error_lambda"
    /\ thread # "in_except"
    /\ after_queue' = Tail(after_queue)
    /\ UNCHANGED <<normVars, truckVars, inspectVars, pipeVars, variant, workbooks,
                   files_to_merge, file_listbox, merge_button, status_label,
                   progress_var, posted, thread>>

\* the steps of perform_merge outside merge_excel_files
PerformMerge ==
    \/ PerformMergeCall
    \/ PerformMergeNameError
    \/ PostMergeComplete
    \/ PostMergeFailed
    \/ PostMergeError
    \/ LeaveExcept

EventLoop ==
    \/ ProgressCallback
    \/ MergeComplete
    \/ MergeFailed
    \/ MergeError
    \/ MergeErrorUnbound

NextGui ==
    \/ AddFiles
    \/ AddFolder
    \/ RemoveSelected
    \/ StartMerge
    \/ PerformMerge
    \/ NoExcelFiles
    \/ ExtractDataframes
    \/ NoValidData
    \/ CreateColumnMapping
    \/ MergeDataframes
    \/ MergeRaises
    \/ NoDataToMerge
    \/ GenerateSummary
    \/ ExportToExcel
    \/ ExportRaises
    \/ EventLoop

SpecGui == InitGui /\ [][NextGui]_vars

\* a stage of merge_excel_files ends: the call moves to a later position
StageEnds ==
    /\ pc \in {"start", "extracted", "mapped", "merged", "summarized"}
    /\ \E later \in {"extracted", "mapped", "merged", "summarized", "returned"} \ {pc} :
           pc' = later

\* the worker thread is scheduled until perform_merge ends, every stage of
\* merge_excel_files ends, and the event loop runs the callbacks posted
SpecGuiLive ==
    SpecGui /\ WF_vars(PerformMerge) /\ WF_pc(StageEnds) /\ WF_vars(EventLoop)

(***************************************************************************)
(* Properties of the merged table (specification Spec).                    *)
(***************************************************************************)
\* the non-provenance columns of a frame
NonProvenance(df) == SelectSeq(df.columns, LAMBDA col : ~Has(PROVENANCE, col))

\* rows q and r of df agree on every non-provenance column
SameData(df, q, r) ==
    \A c \in 1..Len(NonProvenance(df)) :
        Cell(df, q, NonProvenance(df)[c]) = Cell(df, r, NonProvenance(df)[c])

\* row r of df as the sequence of its cells
Row(df, r) == [c \in 1..Len(df.columns) |-> df.data[c][r]]

\* C1: the table returned by merge_dataframes contains no two rows that are
\* equal on all non-provenance columns (null cells of one column being equal).
C1_NoDuplicateDataRows ==
    pc = "merged" =>
        \A q, r \in 1..master_df.index : q < r => ~SameData(master_df, q, r)

\* the position of a loaded table in load order: <<file, sheet>>
LoadPosition(info) ==
    LET f == CHOOSE f \in 1..Len(excel_files) : excel_files[f] = info.file_path
    IN  <<f, CHOOSE k \in 1..Len(disk[f].sheets) :
                 disk[f].sheets[k].sheet_name = info.sheet_name>>

\* the rows of the concatenation that have no earlier row with the same data
FirstSeen(df) ==
    SelectSeq([r \in 1..df.index |-> r],
              LAMBDA r : \A q \in 1..(r - 1) : ~SameData(df, q, r))

\* C2: the merged table is the concatenation of the projected tables in
\* loader order (file order, then sheet order, then row order) without the
\* rows that equal an earlier row on all non-provenance columns; the first
\* row seen survives with its own provenance and the order is unchanged.
C2_StableFirstSeenDedup ==
    pc = "merged" =>
        LET all == concat(merged_data)
            kept == FirstSeen(all)
        IN  /\ \A t, u \in 1..Len(data_info_list) :
                   t < u =>
                       LET p == LoadPosition(data_info_list[t])
                           q == LoadPosition(data_info_list[u])
                       IN  p[1] < q[1] \/ (p[1] = q[1] /\ p[2] < q[2])
            /\ master_df.columns = all.columns
            /\ master_df.index = Len(kept)
            /\ \A k \in 1..Len(kept) : Row(master_df, k) = Row(all, kept[k])

\* C3: every projected table, and so every merged row, has exactly
\* len(ColumnMapping) + 3 fields: one per canonical key plus source_file,
\* source_sheet and merge_timestamp.
C3_FieldCount ==
    pc = "merged" =>
        /\ \A t \in 1..Len(merged_data) :
               Len(merged_data[t].columns) = Len(column_mappings) + 3
        /\ Len(master_df.columns) = Len(column_mappings) + 3

\* C4: the projected table of every loaded table has as many rows as the
\* source table, also when none or only some keys are found in the table.
C4_ProjectionKeepsRows ==
    pc = "merged" =>
        \A t \in 1..Len(data_info_list) :
            /\ merged_data[t].index = data_info_list[t].row_count
            /\ merged_data[t].index = data_info_list[t].dataframe.index

\* the values the projection of df must hold under key std chosen as orig
ExpectedColumn(df, std, orig) ==
    LET similar == {j \in 1..Len(df.columns) : analyze(df.columns[j]) = std}
    IN  IF \E j \in 1..Len(df.columns) : df.columns[j] = orig
        THEN df.data[CHOOSE j \in 1..Len(df.columns) :
                        df.columns[j] = orig /\ \A k \in 1..(j - 1) : df.columns[k] # orig]
        ELSE IF similar # {}
        THEN df.data[CHOOSE j \in similar : \A k \in similar : j <= k]
        ELSE [r \in 1..df.index |-> NaN]

\* C5: for each canonical key and each table the projected column holds the
\* values of the table's column named as the mapping's chosen original name;
\* failing that, of the first column, in column order, whose normalized key
\* is the canonical key; failing that, null for every row of the table.
C5_ProjectionSource ==
    pc = "merged" =>
        \A t \in 1..Len(data_info_list) :
            \A i \in 1..Len(column_mappings) :
                /\ Has(merged_data[t].columns, column_mappings[i][1])
                /\ Series(merged_data[t], column_mappings[i][1])
                     = ExpectedColumn(data_info_list[t].dataframe,
                                      column_mappings[i][1], column_mappings[i][2])

\* the rows of df without their provenance fields, in order
DataRows(df) ==
    [r \in 1..df.index |->
        [c \in 1..Len(NonProvenance(df)) |-> Cell(df, r, NonProvenance(df)[c])]]

\* two loaded tables with the same columns and the same rows
SameTable(a, b) ==
    /\ a.original_columns = b.original_columns
    /\ a.dataframe = b.dataframe

\* C13: merging the list [T, T] yields the same sequence of non-provenance
\* rows as merging [T] alone, the mapping being built from the list that is
\* merged (both merges in one process: a tie between original names falls
\* the same way in both).
C13_MergeTwiceSameRows ==
    (pc = "merged" /\ Len(data_info_list) = 2
                   /\ SameTable(data_info_list[1], data_info_list[2])) =>
        LET alone == <<data_info_list[1]>>
        IN  /\ column_mappings \in create_column_mapping(alone)
            /\ DataRows(master_df)
                 = DataRows(Concatenate(ProjectAll(alone, column_mappings, <<"10:00:00">>)))

(***************************************************************************)
(* Properties of the column mapping (specification Spec).                  *)
(***************************************************************************)
\* the <<table, column>> positions of the loaded tables
LoadedColumns ==
    UNION {{<<t, j>> : j \in 1..Len(data_info_list[t].original_columns)} :
               t \in 1..Len(data_info_list)}

HeaderAt(p) == data_info_list[p[1]].original_columns[p[2]]

\* the original names of the columns that normalize to key
NamesOfKey(key) ==
    {HeaderAt(p) : p \in {q \in LoadedColumns : analyze(HeaderAt(q)) = key}}

\* the number of columns, over all loaded tables, that are named name
ColumnOccurrences(name) == Cardinality({p \in LoadedColumns : HeaderAt(p) = name})

\* the number of loaded tables that have a column named name
TableOccurrences(name) ==
    Cardinality({t \in 1..Len(data_info_list) :
                    Has(data_info_list[t].original_columns, name)})

\* C6 as stated: the chosen original name of every canonical key is one whose
\* number of occurrences among the columns, over all loaded tables, that
\* normalize to the key is maximal.
C6_MostFrequentAmongColumns ==
    pc = "mapped" =>
        \A i \in 1..Len(column_mappings) :
            \A other \in NamesOfKey(column_mappings[i][1]) :
                ColumnOccurrences(column_mappings[i][2]) >= ColumnOccurrences(other)

\* C6 amended: the chosen original name of every canonical key is a name of
\* that key, and no other original name of the key is the header of a column
\* in strictly more loaded tables (a table that has the name on several
\* columns counts once).
C6_MostFrequentAmongTables ==
    pc = "mapped" =>
        \A i \in 1..Len(column_mappings) :
            /\ column_mappings[i][2] \in NamesOfKey(column_mappings[i][1])
            /\ \A other \in NamesOfKey(column_mappings[i][1]) :
                   TableOccurrences(column_mappings[i][2]) >= TableOccurrences(other)

\* a key has two original names, the chosen one in more tables than the other
C6_Witness ==
    /\ pc = "mapped"
    /\ \E i \in 1..Len(column_mappings) :
           \E other \in NamesOfKey(column_mappings[i][1]) :
               TableOccurrences(column_mappings[i][2]) > TableOccurrences(other)

\* name x first occurs, in load order, before name y does
FirstOccursBefore(x, y) ==
    \E p \in LoadedColumns :
        /\ HeaderAt(p) = x
        /\ \A q \in LoadedColumns :
               HeaderAt(q) = y => (p[1] < q[1] \/ (p[1] = q[1] /\ p[2] < q[2]))

\* the tables of the example: workbook 1 loaded before workbook 2
TruckExample ==
    /\ Len(data_info_list) = 2
    /\ data_info_list[1].original_columns = <<"Truck#", "GPS Location", "Status">>
    /\ data_info_list[2].original_columns = <<"vehicle", "position", "condition">>

\* C7 as stated: among equally frequent original names of a key the one that
\* appears first in load order is chosen; for the example tables the mapping
\* is always {truck: "Truck#", location: "GPS Location", status: "Status"}.
C7_FirstTableWins ==
    pc = "mapped" =>
        /\ \A i \in 1..Len(column_mappings) :
               \A other \in NamesOfKey(column_mappings[i][1]) :
                   (other # column_mappings[i][2]
                    /\ TableOccurrences(other) = TableOccurrences(column_mappings[i][2]))
                   => FirstOccursBefore(column_mappings[i][2], other)
        /\ TruckExample =>
               column_mappings = << <<"truck", "Truck#">>,
                                    <<"location", "GPS Location">>,
                                    <<"status", "Status">> >>

\* C7 amended: among equally frequent original names of a key one of them is
\* chosen, not necessarily the first in load order; for the example tables
\* the mapping has the keys truck, location, status, in this order, and maps
\* truck to "Truck#" or "vehicle", location to "GPS Location" or "position"
\* and status to "Status" or "condition".
C7_SomeTiedNameWins ==
    pc = "mapped" =>
        /\ \A i \in 1..Len(column_mappings) :
               \E tied \in NamesOfKey(column_mappings[i][1]) :
                   /\ tied = column_mappings[i][2]
                   /\ \A other \in NamesOfKey(column_mappings[i][1]) :
                          TableOccurrences(tied) >= TableOccurrences(other)
        /\ TruckExample =>
               /\ DictKeys(column_mappings) = <<"truck", "location", "status">>
               /\ column_mappings[1][2] \in {"Truck#", "vehicle"}
               /\ column_mappings[2][2] \in {"GPS Location", "position"}
               /\ column_mappings[3][2] \in {"Status", "condition"}

\* the example tables with a name of the second table chosen
C7_Witness ==
    /\ pc = "mapped"
    /\ TruckExample
    /\ column_mappings[1] = <<"truck", "vehicle">>

\* the example tables, each with the single row ("T1", "A", "OK")
TruckScenario ==
    /\ TruckExample
    /\ \A t \in 1..2 :
           data_info_list[t].dataframe.data = << <<"T1">>, <<"A">>, <<"OK">> >>

\* C14: merging the two workbooks of the example, each with the single row
\* ("T1", "A", "OK"), raises nothing and yields a merged table with exactly
\* one row, whose truck, location and status values are T1, A and OK.
C14_ScenarioOneRow ==
    TruckScenario =>
        /\ raised # "merge_dataframes"
        /\ pc = "merged" =>
               /\ master_df.index = 1
               /\ \A key \in {"truck", "location", "status"} : Has(master_df.columns, key)
               /\ Cell(master_df, 1, "truck") = "T1"
               /\ Cell(master_df, 1, "location") = "A"
               /\ Cell(master_df, 1, "status") = "OK"

\* the example merged under a mapping that names columns of both workbooks
C14_Witness ==
    /\ pc = "merged"
    /\ TruckScenario
    /\ column_mappings[1][2] = "vehicle"
    /\ column_mappings[2][2] = "GPS Location"
    /\ master_df.index = 1

\* the non-empty canonical keys of all columns of all loaded tables
LoadedKeys == {analyze(HeaderAt(p)) : p \in LoadedColumns} \ {""}

\* C8: the keys of the mapping are exactly the non-empty canonical keys of
\* the columns of the loaded tables; no key with an occurrence is dropped,
\* each key maps to exactly one original name, the empty key is no key.
C8_MappingKeys ==
    pc = "mapped" =>
        /\ {column_mappings[i][1] : i \in 1..Len(column_mappings)} = LoadedKeys
        /\ \A i, j \in 1..Len(column_mappings) :
               column_mappings[i][1] = column_mappings[j][1] => i = j
        /\ \A i \in 1..Len(column_mappings) : column_mappings[i][1] # ""

\* two tables loaded, a key that only one of them contributes and a column
\* with the empty key
C8_Witness ==
    /\ pc = "mapped"
    /\ Len(data_info_list) = 2
    /\ \E p \in LoadedColumns : analyze(HeaderAt(p)) = ""
    /\ \E i \in 1..Len(column_mappings) :
           Cardinality({p[1] : p \in {q \in LoadedColumns :
               analyze(HeaderAt(q)) = column_mappings[i][1]}}) = 1

(***************************************************************************)
(* Properties of a run of merge_excel_files (specification Spec).          *)
(***************************************************************************)
\* the stage with this banner has been entered
StageStarted(text) == Has(log, Banner(text))

\* the <<file, sheet>> positions on disk
SheetPositions ==
    UNION {{<<f, k>> : k \in 1..Len(disk[f].sheets)} : f \in 1..Len(disk)}

\* the positions of the sheets that can be read and have at least one row
GoodSheets ==
    {p \in SheetPositions :
        /\ disk[p[1]].openable
        /\ disk[p[1]].sheets[p[2]].readable
        /\ Len(disk[p[1]].sheets[p[2]].rows) > 0}

\* the error lines of the log
ErrorLines ==
    SelectSeq(log, LAMBDA line : line[1] \in {"error_file", "error_sheet"})

\* C16: once extract_dataframes has run, whatever files and sheets failed,
\* the list it returned holds one table for every readable sheet with at
\* least one row, in file order then sheet order, and nothing else; every
\* file that could not be opened and every sheet that could not be read has
\* its line in the log, and a sheet without rows has neither table nor line.
C16_PartialFailure ==
    StageStarted("EXTRACTING DATA FROM FILES AND SHEETS...") =>
        /\ Len(data_info_list) = Cardinality(GoodSheets)
        /\ \A p \in GoodSheets :
               \E t \in 1..Len(data_info_list) :
                   /\ data_info_list[t].file_path = excel_files[p[1]]
                   /\ data_info_list[t].sheet_name = disk[p[1]].sheets[p[2]].sheet_name
                   /\ data_info_list[t].row_count = Len(disk[p[1]].sheets[p[2]].rows)
        /\ \A t, u \in 1..Len(data_info_list) :
               t < u =>
                   LET p == LoadPosition(data_info_list[t])
                       q == LoadPosition(data_info_list[u])
                   IN  p[1] < q[1] \/ (p[1] = q[1] /\ p[2] < q[2])
        /\ \A f \in 1..Len(disk) :
               ~disk[f].openable <=> Has(log, <<"error_file", excel_files[f]>>)
        /\ \A p \in SheetPositions :
               ~disk[p[1]].sheets[p[2]].readable
                   <=> Has(log, <<"error_sheet", disk[p[1]].sheets[p[2]].sheet_name,
                                 excel_files[p[1]]>>)
        /\ Len(ErrorLines) = Cardinality({f \in 1..Len(disk) : ~disk[f].openable})
                              + Cardinality({p \in SheetPositions :
                                                ~disk[p[1]].sheets[p[2]].readable})

\* a workbook whose first sheet cannot be read and whose second sheet is
\* loaded
C16_Witness ==
    /\ pc = "extracted"
    /\ Len(disk) = 1
    /\ Len(disk[1].sheets) = 2
    /\ ~disk[1].sheets[1].readable
    /\ Len(data_info_list) = 1
    /\ data_info_list[1].sheet_name = "Sheet2"
    /\ Len(ErrorLines) = 1

\* C17: all rows produced in one run carry the same merge_timestamp, also
\* rows that come from different tables.
C17_OneTimestampPerRun ==
    pc = "merged" =>
        /\ \A q, r \in 1..master_df.index :
               Cell(master_df, q, "merge_timestamp") = Cell(master_df, r, "merge_timestamp")
        /\ \A t, u \in 1..Len(merged_data) :
               \A q \in 1..merged_data[t].index, r \in 1..merged_data[u].index :
                   Cell(merged_data[t], q, "merge_timestamp")
                       = Cell(merged_data[u], r, "merge_timestamp")

\* C18: a failure to write the output workbook in export_to_excel reaches
\* the caller of merge_excel_files as an exception; the run returns neither
\* a (merged table, summary) pair nor the nothing-to-merge value.
C18_ExportFailurePropagates ==
    raised = "export_to_excel" =>
        /\ pc = "returned"
        /\ result = "exception"
        /\ result \notin {"success", "nothing"}

\* the export failed after the writer was opened
C18_Witness ==
    /\ raised = "export_to_excel"
    /\ output = PartialWorkbook
    /\ master_df.index > 0
    /\ pc = "returned"

\* the banners of the stages in the order of merge_excel_files
StageOrder ==
    << Banner("EXTRACTING DATA FROM FILES AND SHEETS..."),
       Banner("ANALYZING COLUMNS AND CREATING MAPPING..."),
       Banner("MERGING DATA..."),
       Banner("GENERATING SUMMARY..."),
       Banner("EXPORTING TO EXCEL...") >>

\* the stages entered so far, in the order they were entered
Stages == SelectSeq(log, LAMBDA line : line[1] = "stage")

\* C20: the stages of a run are entered in the order load, build mapping,
\* merge, summarize, export, none twice and none before the one before it
\* has delivered its result; once the run has returned no stage is entered.
C20_StagesInOrder ==
    /\ [](/\ Len(Stages) <= Len(StageOrder)
          /\ Stages = SubSeq(StageOrder, 1, Len(Stages))
          /\ Len(Stages) >= 2 => pc # "start"
          /\ Len(Stages) >= 3 => column_mappings \in create_column_mapping(data_info_list)
          /\ Len(Stages) >= 4 => (merged_data # <<>> /\ ~IsEmpty(master_df))
          /\ Len(Stages) >= 5 => summary # NoSummary)
    /\ [][pc = "returned" => Stages' = Stages]_vars

\* a run that went through all five stages and returned its result
C20_Witness ==
    /\ pc = "returned"
    /\ result = "success"
    /\ Stages = StageOrder
    /\ output.complete

\* the files and sheets have been gone through
FilesProcessed ==
    \/ StageStarted("EXTRACTING DATA FROM FILES AND SHEETS...")
    \/ tpc \notin {"idle", "start"}

\* C19: after a run of any of the scripts every file that could not be
\* opened and every sheet that could not be read, and was skipped, is named
\* by a line of the log.
C19_SkippedAreLogged ==
    FilesProcessed =>
        /\ \A f \in 1..Len(disk) :
               ~disk[f].openable =>
                   \E i \in 1..Len(log) : Has(log[i], excel_files[f])
        /\ \A p \in SheetPositions :
               (disk[p[1]].openable /\ ~disk[p[1]].sheets[p[2]].readable) =>
                   \E i \in 1..Len(log) :
                       /\ Has(log[i], excel_files[p[1]])
                       /\ Has(log[i], disk[p[1]].sheets[p[2]].sheet_name)

\* C27 as stated: a file is written at the output path if and only if the
\* run returns a (merged table, summary) pair.
C27_WrittenIffReturned ==
    pc = "returned" => (output.exists <=> result = "success")

\* C27 amended: the run returns a (merged table, summary) pair if and only
\* if it has written the complete output workbook (a failed export raises
\* and can leave an incomplete file); a run that returns nothing-to-merge
\* leaves the output path as it was; the Column_Mapping table of a complete
\* output is the mapping with which the tables of the run were projected.
C27_CompleteIffReturned ==
    /\ [](/\ pc = "returned" => (output.complete <=> result = "success")
          /\ output.exists => Has(Stages, Banner("EXPORTING TO EXCEL..."))
          /\ result = "nothing" => output = NoWorkbook
          /\ output.complete =>
                 /\ output.Column_Mapping = column_mappings
                 /\ \E clock \in Clocks(Len(data_info_list)) :
                        merged_data
                          = ProjectAll(data_info_list, output.Column_Mapping, clock))
    /\ [][result' = "nothing" => output' = output]_vars

\* a run that wrote its output, the mapping table holding two keys or more
C27_Witness ==
    /\ pc = "returned"
    /\ result = "success"
    /\ output.complete
    /\ Len(output.Column_Mapping) >= 2
    /\ Has(output.sheet_names, "Column_Mapping")

RECURSIVE SumTotalRows(_)
SumTotalRows(details) ==
    IF details = <<>> THEN 0
    ELSE Head(details)[2].total_rows + SumTotalRows(Tail(details))

\* C28: in the summary the per-file breakdown has one entry per processed
\* file, also for files of the same name in different directories: as many
\* entries as total_files_processed, their total_rows adding up to
\* total_rows_before_merge, and total_rows_after_merge is no larger.
C28_FileDetails ==
    StageStarted("GENERATING SUMMARY...") =>
        /\ Len(summary.file_details) = summary.total_files_processed
        /\ SumTotalRows(summary.file_details) = summary.total_rows_before_merge
        /\ summary.total_rows_after_merge <= summary.total_rows_before_merge

\* C29: in every projected table, and so in every merged row, source_file,
\* source_sheet and merge_timestamp hold the base name of the file, the
\* name of the sheet and the one timestamp of the table; every key of the
\* mapping has a column of its own whose values, where the table has a
\* column for the key, are the values of that column; and every key of the
\* mapping is compared by the de-duplication. This for all headers, also
\* source_file and source_sheet.
C29_ProvenanceAndData ==
    pc = "merged" =>
        /\ \A t \in 1..Len(merged_data) :
               /\ \A r \in 1..merged_data[t].index :
                      /\ Cell(merged_data[t], r, "source_file")
                           = PathName(data_info_list[t].file_path)
                      /\ Cell(merged_data[t], r, "source_sheet")
                           = data_info_list[t].sheet_name
                      /\ Cell(merged_data[t], r, "merge_timestamp")
                           = Cell(merged_data[t], 1, "merge_timestamp")
               /\ \A i \in 1..Len(column_mappings) :
                      LET std == column_mappings[i][1]
                          col == FoundColumn(data_info_list[t].dataframe, std,
                                             column_mappings[i][2])
                      IN  /\ Has(merged_data[t].columns, std)
                          /\ col # <<>> =>
                                 Series(merged_data[t], std)
                                   = Series(data_info_list[t].dataframe, col[1])
        /\ Len(merged_data[1].columns) = Len(column_mappings) + Len(PROVENANCE)
        /\ \A i \in 1..Len(column_mappings) :
               Has(NonProvenance(master_df), column_mappings[i][1])

\* there is nothing to merge: no file, no table loaded, no key in the
\* mapping, or no row in the merged table
NothingLoaded ==
    \/ excel_files = <<>>
    \/ StageStarted("EXTRACTING DATA FROM FILES AND SHEETS...") /\ data_info_list = <<>>
    \/ StageStarted("ANALYZING COLUMNS AND CREATING MAPPING...") /\ column_mappings = <<>>
    \/ merged_data # <<>> /\ IsEmpty(master_df)

\* C15: when the file list is empty, when no table survives loading, when
\* the mapping is empty or when the merged table is empty, the run raises
\* nothing, goes on to no summary and no export, and what it returns is the
\* nothing-to-merge outcome (None, None).
C15_NothingToMerge ==
    NothingLoaded =>
        /\ raised = ""
        /\ result \in {"none", "nothing"}
        /\ pc = "returned" => result = "nothing"
        /\ ~StageStarted("GENERATING SUMMARY...")
        /\ ~StageStarted("EXPORTING TO EXCEL...")

\* a run that returned nothing-to-merge with one file unreadable and a table
\* loaded from the other, none of whose headers has a key
C15_Witness ==
    /\ pc = "returned"
    /\ result = "nothing"
    /\ \E f \in 1..Len(disk) : ~disk[f].openable
    /\ data_info_list # <<>>
    /\ column_mappings = <<>>
    /\ merged_data # <<>>

(***************************************************************************)
(* Properties of extract_truck_columns (specification SpecTruck).          *)
(***************************************************************************)
\* the sheets in which some header matches a target of truck
TruckSheetsFound ==
    {p \in SheetPositions :
        /\ disk[p[1]].openable
        /\ disk[p[1]].sheets[p[2]].readable
        /\ \E c \in 1..Len(disk[p[1]].sheets[p[2]].columns) :
               MatchesTarget(disk[p[1]].sheets[p[2]].columns[c], target_columns[1][2])}

\* the first-row value of the first column of the sheet that matches target
\* t, empty when the sheet has no such column or no row
FirstRowValue(sheet, t) ==
    LET found == {c \in 1..Len(sheet.columns) :
                     MatchesTarget(sheet.columns[c], target_columns[t][2])}
    IN  IF found = {} \/ sheet.rows = <<>> THEN ""
        ELSE sheet.rows[1][Min(found)]

\* row r of the returned table describes the sheet at position p
DescribesSheet(r, p) ==
    LET sheet == disk[p[1]].sheets[p[2]]
    IN  /\ Cell(result_df, r, "truck_number") = FirstRowValue(sheet, 1)
        /\ Cell(result_df, r, "location") \in {FirstRowValue(sheet, 2), NaN}
        /\ Cell(result_df, r, "status") \in {FirstRowValue(sheet, 3), NaN}
        /\ Cell(result_df, r, "remarks") \in {FirstRowValue(sheet, 4), NaN}
        /\ Cell(result_df, r, "source_file") = PathName(excel_files[p[1]])
        /\ Cell(result_df, r, "source_sheet") = sheet.sheet_name

\* C30: when some sheet has a truck column, extract_truck_columns does not
\* raise for want of a location, status or remarks column, and the table
\* it returns has one row per sheet with a truck column, holding under
\* truck_number, location, status and remarks the first-row values of the
\* matching columns (empty where there is none) and under source_file and
\* source_sheet the base name of the workbook and the name of the sheet.
C30_TruckTable ==
    (tpc \in {"raised", "returned_table", "returned_none"} /\ TruckSheetsFound # {}) =>
        /\ tpc # "returned_none"
        /\ result_df.columns = TRUCK_COLUMNS
        /\ tpc = "returned_table" =>
               /\ result_df.index = Cardinality(TruckSheetsFound)
               /\ \A p \in TruckSheetsFound :
                      \E r \in 1..result_df.index : DescribesSheet(r, p)

(***************************************************************************)
(* Properties of analyze_column (specification SpecNorm).                  *)
(***************************************************************************)
Max(S) == CHOOSE x \in S : \A y \in S : x >= y

Char(s, i) == SubSeq(s, i, i)

\* s without its leading and trailing whitespace
Trimmed(s) ==
    LET inner == {i \in 1..Len(s) : Char(s, i) \notin Whitespace}
    IN  IF inner = {} THEN "" ELSE SubSeq(s, Min(inner), Max(inner))

\* key occurs in the lower-cased s
OccursLowered(s, key) ==
    \E i \in 1..(Len(s) - Len(key) + 1) :
        \A k \in 1..Len(key) : LowerChar(Char(s, i + k - 1)) = Char(key, k)

\* low is s lower-cased
IsLowered(low, s) ==
    /\ Len(low) = Len(s)
    /\ \A i \in 1..Len(s) : Char(low, i) = LowerChar(Char(s, i))

\* C9: for a non-null header analyze_column returns the key of the first
\* entry, in table order, whose substring occurs in the trimmed lower-cased
\* header, and the trimmed lower-cased header itself if there is none.
C9_FirstEntryWins ==
    (npc = "return" /\ column_name # NaN) =>
        LET s == Trimmed(column_name)
            hits == {i \in 1..Len(replacements) : OccursLowered(s, replacements[i][1])}
        IN  IF hits = {}
            THEN IsLowered(std_col, s)
            ELSE std_col = replacements[Min(hits)][2]

\* a header in which two entries with different keys occur
C9_Witness ==
    /\ npc = "return"
    /\ column_name = "timestamp"
    /\ std_col = "time"

\* C10: analyze_column returns "truck_number" for "Truck_No" and "truck"
\* for "TRK#".
C10_TruckNoAndTrk ==
    npc = "return" =>
        /\ column_name = "Truck_No" => std_col = "truck_number"
        /\ column_name = "TRK#" => std_col = "truck"

\* C11: for every entry (substring, key) of the table, the header that is
\* exactly the substring normalizes to the key of that entry, e.g.
\* "timestamp" to "datetime", "velocity" to "speed", "truck_no" to
\* "truck_number".
C11_EntryNormalizesToItsKey ==
    npc = "return" =>
        \A i \in 1..Len(replacements) :
            column_name = replacements[i][1] => std_col = replacements[i][2]

\* C12: analyze_column applied to a value it returned returns that value.
C12_Idempotent ==
    npc = "again" => std_again = std_col

\* a header that is no canonical key, normalized twice
C12_Witness ==
    /\ npc = "again"
    /\ column_name = "velocity"
    /\ std_col = "location"
    /\ std_again = "location"

(***************************************************************************)
(* Properties of directory scanning and of the inspection scripts          *)
(* (specification SpecInspect).                                            *)
(***************************************************************************)
\* the extension set the running program compares names against
Extensions ==
    IF script = "find_excel_files" THEN excel_extensions
    ELSE IF script = "process_excel" THEN process_excel_extensions
    ELSE excel_to_json_extensions

\* the name ends, whatever its case, with one of the extensions
HasExtension(name, exts) ==
    \E e \in 1..Len(exts) : endswith(scan_memo[name].lower, exts[e])

HasExtension_memo ==
    [exts \in {excel_extensions, process_excel_extensions} |->
        [name \in EntryNames |-> HasExtension(name, exts)]]

Occurrences(seq, x) == Cardinality({i \in 1..Len(seq) : seq[i] = x})

\* C23: after the scan a name of the folder is selected exactly once when its
\* extension, compared without regard to case, is in the extension set of
\* the program, and is not selected otherwise
C23_CaseInsensitiveScan ==
    ipc # "start" =>
        \A i \in 1..Len(folder) :
            Occurrences(scan_files, folder[i]) =
                (IF HasExtension_memo[Extensions][folder[i]] THEN 1 ELSE 0)

\* the documents this run wrote
ThisRun == {d \in output_folder : d.run = 1}

\* C24: when an inspection script has ended, this run wrote as many documents
\* as it found workbooks, every workbook has a document that records its
\* name, and the aggregate summary lists the documents of this run and no
\* other
C24_OneDocumentPerWorkbook ==
    (ipc = "done" /\ script # "find_excel_files") =>
        /\ Cardinality(ThisRun) = Len(scan_files)
        /\ \A i \in 1..Len(scan_files) : \E d \in ThisRun : d.filename = scan_files[i]
        /\ summary_json.files = ThisRun

(***************************************************************************)
(* Properties of the GUI (specifications SpecGui and SpecGuiLive).         *)
(***************************************************************************)
\* the elements of seq at the positions that are not in selected, in order
Keep(seq, selected) ==
    LET kept == {i \in 1..Len(seq) : \A k \in 1..Len(selected) : selected[k] # i}
        nth[n \in 0..Len(seq)] ==
            IF n = 0 THEN 0 ELSE Min({i \in kept : i > nth[n - 1]} \cup {Len(seq) + 1})
    IN  [n \in 1..Cardinality(kept) |-> seq[nth[n]]]

Outcome ==
    CASE result = "success" -> "merge_complete"
      [] result = "nothing" -> "merge_failed"
      [] result = "exception" -> "merge_error"
      [] OTHER -> "none"

\* every file the dialogs offer holds valid rows
AllValid == \A file \in DOMAIN workbooks : workbooks[file] = GoodBook

\* C21: a worker posts nothing before the pipeline has ended; when it has
\* ended the pipeline has run, the worker has posted exactly one outcome
\* callback, the one that belongs to the result of the pipeline, and with
\* valid workbooks and no failure of the export that callback is
\* merge_complete
C21_OneOutcomeEvent ==
    /\ thread \in {"started", "merging"} => posted = <<>>
    /\ thread \in {"in_except", "finished"} =>
           /\ Len(posted) = 1
           /\ result # "none"
           /\ posted[1] = Outcome
           /\ (AllValid /\ raised # "export_to_excel") => posted = <<"merge_complete">>

\* C22: while the worker is inside merge_excel_files the list it was passed
\* does not change
C22_WorkerListFrozen ==
    [][(thread = "merging" /\ thread' = "merging") => excel_files' = excel_files]_vars

\* C25: in excel_merger_gui.py a disabled merge button is eventually enabled
\* again, with a status label that no longer shows the processing text
C25_ButtonReenabled ==
    (variant = "excel_merger_gui" /\ merge_button = "disabled")
        ~> (merge_button = "normal" /\ status_label # Processing(variant))

====
